---- MODULE Spec2Model ----
(***************************************************************************)
(* Model of distributed_observability: correlation-ID resolution and       *)
(* propagation (tracing/tracer.py), the header capture policy              *)
(* (core/config.py), the TracingManager lifecycle (tracing/tracer.py),     *)
(* the inbound RequestTracingMiddleware (framework/fastapi.py) and the     *)
(* outbound CorrelatedClient / patched httpx request (utils/client.py).    *)
(***************************************************************************)
EXTENDS Integers, Sequences, FiniteSets, TLC

(***************************************************************************)
(* Bounds of the model.                                                    *)
(***************************************************************************)
\* uuid.uuid4() is called at most this many times in one behaviour
MaxUuid == 2
\* an ASGI scope carries at most this many header pairs
MaxHeaders == 2
\* setup() is called at most this many times on one manager
MaxSetups == 2
\* shutdown() is called at most this many times on one manager
MaxShutdowns == 2

(***************************************************************************)
(* Python values.  None and an omitted keyword argument are sentinels;     *)
(* str values are TLA+ strings.  Truthy is Python's truth test on          *)
(* Optional[str]: None and "" are false.                                   *)
(***************************************************************************)
None == "<None>"
Truthy(v) == v # None /\ v # ""

(***************************************************************************)
(* Strings that the code takes apart (lower(), "in", fnmatch) are given    *)
(* character by character.                                                 *)
(***************************************************************************)
Chars ==
    "x-correlation-id" :> <<"x", "-", "c", "o", "r", "r", "e", "l", "a", "t", "i", "o", "n", "-", "i", "d">> @@
    "x-request-id" :> <<"x", "-", "r", "e", "q", "u", "e", "s", "t", "-", "i", "d">> @@
    "correlation-id" :> <<"c", "o", "r", "r", "e", "l", "a", "t", "i", "o", "n", "-", "i", "d">> @@
    "user-agent" :> <<"u", "s", "e", "r", "-", "a", "g", "e", "n", "t">> @@
    "x-forwarded-for" :> <<"x", "-", "f", "o", "r", "w", "a", "r", "d", "e", "d", "-", "f", "o", "r">> @@
    "x-real-ip" :> <<"x", "-", "r", "e", "a", "l", "-", "i", "p">> @@
    "x-edge-location" :> <<"x", "-", "e", "d", "g", "e", "-", "l", "o", "c", "a", "t", "i", "o", "n">> @@
    "x-amz-cf-id" :> <<"x", "-", "a", "m", "z", "-", "c", "f", "-", "i", "d">> @@
    "authorization" :> <<"a", "u", "t", "h", "o", "r", "i", "z", "a", "t", "i", "o", "n">> @@
    "cookie" :> <<"c", "o", "o", "k", "i", "e">> @@
    "x-api-key" :> <<"x", "-", "a", "p", "i", "-", "k", "e", "y">> @@
    "api-key" :> <<"a", "p", "i", "-", "k", "e", "y">> @@
    "accept" :> <<"a", "c", "c", "e", "p", "t">> @@
    "X-Correlation-ID" :> <<"X", "-", "C", "o", "r", "r", "e", "l", "a", "t", "i", "o", "n", "-", "I", "D">> @@
    "X-Request-ID" :> <<"X", "-", "R", "e", "q", "u", "e", "s", "t", "-", "I", "D">> @@
    "Authorization" :> <<"A", "u", "t", "h", "o", "r", "i", "z", "a", "t", "i", "o", "n">> @@
    "x-*" :> <<"x", "-", "*">> @@
    "X-*" :> <<"X", "-", "*">> @@
    "correlation" :> <<"c", "o", "r", "r", "e", "l", "a", "t", "i", "o", "n">> @@
    "request-id" :> <<"r", "e", "q", "u", "e", "s", "t", "-", "i", "d">> @@
    "content-type" :> <<"c", "o", "n", "t", "e", "n", "t", "-", "t", "y", "p", "e">> @@
    "cf-*" :> <<"c", "f", "-", "*">> @@
    "cloudfront-*" :> <<"c", "l", "o", "u", "d", "f", "r", "o", "n", "t", "-", "*">> @@
    "*-id" :> <<"*", "-", "i", "d">> @@
    "*-ID" :> <<"*", "-", "I", "D">> @@
    "x-secret-*" :> <<"x", "-", "s", "e", "c", "r", "e", "t", "-", "*">> @@
    "x-tenant-id" :> <<"x", "-", "t", "e", "n", "a", "n", "t", "-", "i", "d">> @@
    "X-TENANT-ID" :> <<"X", "-", "T", "E", "N", "A", "N", "T", "-", "I", "D">> @@
    "USER-AGENT" :> <<"U", "S", "E", "R", "-", "A", "G", "E", "N", "T">> @@
    "AUTHORIZATION" :> <<"A", "U", "T", "H", "O", "R", "I", "Z", "A", "T", "I", "O", "N">> @@
    "x-secret-token" :> <<"x", "-", "s", "e", "c", "r", "e", "t", "-", "t", "o", "k", "e", "n">> @@
    "X-SECRET-TOKEN" :> <<"X", "-", "S", "E", "C", "R", "E", "T", "-", "T", "O", "K", "E", "N">> @@
    "x-id" :> <<"x", "-", "i", "d">> @@
    "X-ID" :> <<"X", "-", "I", "D">> @@
    "x-?d" :> <<"x", "-", "?", "d">> @@
    "X-?D" :> <<"X", "-", "?", "D">> @@
    "X-Secret-Token" :> <<"X", "-", "S", "e", "c", "r", "e", "t", "-", "T", "o", "k", "e", "n">>

StringUniverse == DOMAIN Chars

UpperToLower ==
    "A" :> "a" @@ "B" :> "b" @@ "C" :> "c" @@ "D" :> "d" @@ "E" :> "e" @@ "F" :> "f" @@
    "G" :> "g" @@ "H" :> "h" @@ "I" :> "i" @@ "J" :> "j" @@ "K" :> "k" @@ "L" :> "l" @@
    "M" :> "m" @@ "N" :> "n" @@ "O" :> "o" @@ "P" :> "p" @@ "Q" :> "q" @@ "R" :> "r" @@
    "S" :> "s" @@ "T" :> "t" @@ "U" :> "u" @@ "V" :> "v" @@ "W" :> "w" @@ "X" :> "x" @@
    "Y" :> "y" @@ "Z" :> "z"

\* str.lower() on one character
LowerChar(c) == IF c \in DOMAIN UpperToLower THEN UpperToLower[c] ELSE c

LowerSeq(cs) == [i \in 1..Len(cs) |-> LowerChar(cs[i])]

StringOf(cs) == CHOOSE s \in StringUniverse : Chars[s] = cs

\* str.lower(), tabulated over the strings of the model
lower == [s \in StringUniverse |-> StringOf(LowerSeq(Chars[s]))]

\* Python's  needle in haystack  on str
Contains(needle, haystack) ==
    LET n == Chars[needle]
        h == Chars[haystack]
    IN  \E i \in 0..(Len(h) - Len(n)) :
            \A j \in 1..Len(n) : h[i + j] = n[j]

\* fnmatch.fnmatchcase on character sequences: * is any sequence, ? any one
\* character, every other character stands for itself
RECURSIVE GlobMatch(_, _, _, _)
GlobMatch(s, p, i, j) ==
    IF j > Len(p) THEN i > Len(s)
    ELSE IF p[j] = "*"
         THEN \/ GlobMatch(s, p, i, j + 1)
              \/ (i <= Len(s) /\ GlobMatch(s, p, i + 1, j))
    ELSE IF i > Len(s) THEN FALSE
    ELSE IF p[j] = "?" \/ p[j] = s[i] THEN GlobMatch(s, p, i + 1, j + 1)
    ELSE FALSE

\* a comparison that takes the pattern as a plain name
fnmatch_plain(name, pattern) == Chars[name] = Chars[pattern]

\* fnmatch.fnmatch(name, pattern) on a POSIX path module (normcase keeps case)
fnmatch(name, pattern) == GlobMatch(Chars[name], Chars[pattern], 1, 1)

(***************************************************************************)
(* Python dicts with str keys are functions; dict.get(k) is None for a     *)
(* missing key.                                                            *)
(***************************************************************************)
EmptyDict == <<>>
Get(d, k) == IF k \in DOMAIN d THEN d[k] ELSE None
Put(d, k, v) == [x \in (DOMAIN d) \cup {k} |-> IF x = k THEN v ELSE d[x]]
SeqRange(s) == {s[i] : i \in 1..Len(s)}

(***************************************************************************)
(* core/config.py                                                          *)
(***************************************************************************)
\* a match that compares the name and the patterns as they are spelled
match_header_pattern_cased(header_name, patterns) ==
    IF patterns = <<>> THEN FALSE
    ELSE \E i \in 1..Len(patterns) : fnmatch(header_name, patterns[i])

\* match_header_pattern, config.py:10-31
match_header_pattern(header_name, patterns) ==
    IF patterns = <<>> THEN FALSE
    ELSE \E i \in 1..Len(patterns) :
            fnmatch(lower[header_name], lower[patterns[i]])

DefaultCorrelationConfig ==
    [headers |-> <<"x-correlation-id", "x-request-id">>,
     propagation |-> TRUE,
     generate_id |-> TRUE]

DefaultFastAPIConfig ==
    [enable_middleware |-> TRUE,
     capture_request_headers |->
        <<"x-correlation-id", "x-request-id", "correlation-id", "user-agent",
          "x-forwarded-for", "x-real-ip", "x-edge-location", "x-amz-cf-id">>,
     redact_headers |-> <<"authorization", "cookie", "x-api-key", "api-key">>,
     header_patterns |-> <<>>]

\* a capture policy that consults the explicit list only
should_capture_header_listed(cfg, header_name) ==
    lower[header_name] \in {lower[h] : h \in SeqRange(cfg.capture_request_headers)}

\* FastAPIConfig.should_capture_header, config.py:147-167
should_capture_header(cfg, header_name) ==
    \/ lower[header_name] \in {lower[h] : h \in SeqRange(cfg.capture_request_headers)}
    \/ match_header_pattern(header_name, cfg.header_patterns)

\* a redaction that applies to captured headers only
should_redact_header_captured(cfg, header_name) ==
    /\ should_capture_header(cfg, header_name)
    /\ lower[header_name] \in {lower[h] : h \in SeqRange(cfg.redact_headers)}

\* FastAPIConfig.should_redact_header, config.py:169-180
should_redact_header(cfg, header_name) ==
    lower[header_name] \in {lower[h] : h \in SeqRange(cfg.redact_headers)}

\* HTTPClientConfig(), config.py:183-210
DefaultHTTPClientConfig ==
    [enable_httpx |-> TRUE,
     instrument_requests |-> TRUE,
     capture_headers |->
        <<"x-correlation-id", "x-request-id", "user-agent", "content-type">>,
     redact_headers |-> <<"authorization", "cookie", "x-api-key", "api-key">>,
     header_patterns |-> <<"x-*">>]

\* HTTPClientConfig.should_capture_header, config.py:212-232
HTTPClientConfig_should_capture_header(cfg, header_name) ==
    \/ lower[header_name] \in {lower[h] : h \in SeqRange(cfg.capture_headers)}
    \/ match_header_pattern(header_name, cfg.header_patterns)

\* HTTPClientConfig.should_redact_header, config.py:234-245
HTTPClientConfig_should_redact_header(cfg, header_name) ==
    lower[header_name] \in {lower[h] : h \in SeqRange(cfg.redact_headers)}

(***************************************************************************)
(* tracing/tracer.py: CorrelationManager                                   *)
(***************************************************************************)
\* str(uuid.uuid4()) at the n-th call of uuid4 in the process
uuid4(n) == "uuid-" \o ToString(n)

RECURSIVE ExtractFrom(_, _, _)
ExtractFrom(names, headers, i) ==
    IF i > Len(names) THEN None
    ELSE LET correlation_id == Get(headers, lower[names[i]])
         IN  IF Truthy(correlation_id) THEN correlation_id
             ELSE ExtractFrom(names, headers, i + 1)

\* an extraction that looks for the first configured header only
extract_correlation_id_first_only(cfg, headers) ==
    IF cfg.headers # <<>> /\ Truthy(Get(headers, lower[cfg.headers[1]]))
    THEN Get(headers, lower[cfg.headers[1]])
    ELSE None

\* CorrelationManager.extract_correlation_id, tracer.py:257-264
extract_correlation_id(cfg, headers) == ExtractFrom(cfg.headers, headers, 1)

\* a generator that hands out one identifier again and again
generate_correlation_id_stale(n) == uuid4(1)

\* n is the number of uuid4() calls made so far
generate_correlation_id(n) == uuid4(n + 1)

\* does get_correlation_id call generate_correlation_id on these inputs
Generates(cfg, headers) ==
    ~Truthy(extract_correlation_id(cfg, headers)) /\ cfg.generate_id

get_correlation_id(cfg, headers, n) ==
    LET correlation_id == extract_correlation_id(cfg, headers)
    IN  IF ~Truthy(correlation_id) /\ cfg.generate_id
        THEN generate_correlation_id(n)
        ELSE correlation_id

\* propagation that does not consult the propagation flag
get_propagation_headers_unconditional(cfg, correlation_id) ==
    IF ~Truthy(correlation_id) THEN EmptyDict
    ELSE LET header_name == IF cfg.headers # <<>> THEN cfg.headers[1]
                            ELSE "x-correlation-id"
         IN  header_name :> correlation_id

get_propagation_headers(cfg, correlation_id) ==
    IF ~Truthy(correlation_id) \/ ~cfg.propagation THEN EmptyDict
    ELSE LET header_name == IF cfg.headers # <<>> THEN cfg.headers[1]
                            ELSE "x-correlation-id"
         IN  header_name :> correlation_id

(***************************************************************************)
(* State.                                                                  *)
(***************************************************************************)
VARIABLES
    tracing_config,          \* TracingConfig of the service
    fastapi_config,          \* FastAPIConfig of the middleware and the hook
    custom_span_attributes,  \* RequestTracingMiddleware.custom_span_attributes
    uuid_count,              \* number of uuid.uuid4() calls made so far
    generated,               \* the identifiers generate_correlation_id returned
    probe,                   \* last direct call on a CorrelationManager
    manager,                 \* fields of the TracingManager
    global_provider,         \* opentelemetry's process-wide tracer provider
    setup_calls,             \* number of setup() calls so far
    shutdown_calls,          \* number of shutdown() calls so far
    released,                \* what shutdown() calls have shut down, in order
    mgr_call,                \* last call on the TracingManager and its outcome
    mgr_history,             \* what the last setup() on the manager returned,
                             \* and whether shutdown() was called since
    phase,                   \* "startup" until setup_tracing ran, then "serving"
    pc,                      \* per request: position of the request
    scope_headers,           \* per request: header pairs of the ASGI scope
    client,                  \* per request: request.client host, or None
    recording,               \* per request: current span is_recording()
    attributes,              \* per request: attributes of the current span
    span_events,             \* per request: record_exception/set_status calls
    correlation_id,          \* per request: dispatch's local correlation_id
    middleware_error,        \* per request: dispatch's local middleware_error
    invocations,             \* per request: outcomes of the call_next calls
    result,                  \* per request: what dispatch returned or raised
    outbound,                \* per request: last outbound call of the handler
    chain,                   \* a request on its way through a chain of services
    task,                    \* a Celery task run and the span of its handlers
    traced                   \* a call of a function wrapped by trace_function

cfgVars == <<tracing_config, fastapi_config, custom_span_attributes>>
uuidVars == <<uuid_count, generated>>
auxVars == <<chain, task, traced>>
mgrVars == <<manager, global_provider, setup_calls, shutdown_calls, released,
             mgr_call, mgr_history, phase>>
reqVars == <<pc, scope_headers, client, recording, attributes, span_events,
             correlation_id, middleware_error, invocations, result, outbound>>
vars == <<cfgVars, uuidVars, probe, auxVars, mgrVars, reqVars>>

\* request slots; sequentially served requests reuse slot 1
ReqIds == {1, 2}

\* a span lookup that answers with the span of request 1 in every context
get_current_span_process_wide(r) == 1

\* trace.get_current_span() called in the context of request r
\* (fastapi.py:72, client.py:103, client.py:164): opentelemetry keeps the
\* current span in a context variable, and every request runs in a context
\* of its own
get_current_span(r) == r

\* a local variable that no assignment has reached yet
Unbound == "<unbound>"

NoCaller == [kind |-> "omitted", map |-> EmptyDict]

NoOutbound ==
    [via |-> "none", enable_httpx |-> TRUE, config |-> DefaultCorrelationConfig,
     caller |-> NoCaller, read_id |-> None, outcome |-> "none",
     sent |-> NoCaller, exc |-> None]

NoResult ==
    [kind |-> "none", status |-> 0, headers |-> EmptyDict, invocation |-> 0,
     exc |-> None]

NoProbe ==
    [op |-> "none", headers |-> EmptyDict, arg |-> None, ret |-> None,
     ret_headers |-> EmptyDict]

\* TracingManager.__init__ (tracer.py:35-41); 0 stands for None
NewManager ==
    [tracer_provider |-> 0, tracer |-> 0, span_processor |-> 0,
     is_setup |-> FALSE]

NoMgrCall == [op |-> "none", fail_at |-> "none", ret |-> "none"]

\* a manager on which neither setup() nor shutdown() has been called
NoHistory == [last_setup |-> "none", shut_down |-> FALSE]

DefaultTracingConfig ==
    [service_name |-> "order-service",
     sampling_rate |-> None,
     correlation |-> DefaultCorrelationConfig]

InitManager ==
    /\ manager = NewManager
    /\ global_provider = 0
    /\ setup_calls = 0
    /\ shutdown_calls = 0
    /\ released = <<>>
    /\ mgr_call = NoMgrCall
    /\ mgr_history = NoHistory
    /\ phase = "startup"

InitRequests ==
    /\ pc = [r \in ReqIds |-> "idle"]
    /\ scope_headers = [r \in ReqIds |-> <<>>]
    /\ client = [r \in ReqIds |-> None]
    /\ recording = [r \in ReqIds |-> FALSE]
    /\ attributes = [r \in ReqIds |-> EmptyDict]
    /\ span_events = [r \in ReqIds |-> <<>>]
    /\ correlation_id = [r \in ReqIds |-> Unbound]
    /\ middleware_error = [r \in ReqIds |-> None]
    /\ invocations = [r \in ReqIds |-> <<>>]
    /\ result = [r \in ReqIds |-> NoResult]
    /\ outbound = [r \in ReqIds |-> NoOutbound]

\* no request is on its way through a chain of services
NoChain ==
    [configs |-> <<>>, hop |-> 0, stage |-> "none", wire |-> <<>>,
     span |-> EmptyDict, resolved |-> <<>>]

\* a span as the handlers of this library use it: attributes, events, the
\* number of end() calls, and the keys written after the span had ended (the
\* SDK drops such a write)
NewSpan ==
    [attributes |-> EmptyDict, events |-> <<>>, end_calls |-> 0,
     late_writes |-> <<>>]

\* span.set_attributes(values) for a dict given as its items in order
RECURSIVE SetAttributes(_, _)
SetAttributes(span, items) ==
    IF items = <<>> THEN span
    ELSE LET written ==
                IF span.end_calls > 0
                THEN [span EXCEPT !.late_writes = Append(@, items[1][1])]
                ELSE [span EXCEPT !.attributes = Put(@, items[1][1], items[1][2])]
         IN  SetAttributes(written, Tail(items))

\* span.record_exception(exception)
RecordException(span, exception) ==
    [span EXCEPT !.events = Append(@, <<"exception", exception>>)]

\* span.end()
EndSpan(span) == [span EXCEPT !.end_calls = @ + 1]

\* no Celery task is running
NoTask ==
    [pc |-> "idle", task_id |-> None, name |-> None,
     headers |-> [kind |-> "none", map |-> EmptyDict], parent |-> None,
     otel_span |-> FALSE, state |-> None, exception |-> None, span |-> NewSpan]

\* no wrapped function is being called
NoTraced ==
    [pc |-> "idle", wrapper |-> "none", span_name |-> None, func |-> None,
     func_outcome |-> [kind |-> "none", value |-> None],
     outcome |-> [kind |-> "none", value |-> None],
     span |-> NewSpan]

InitAux ==
    /\ chain = NoChain
    /\ task = NoTask
    /\ traced = NoTraced

InitUuid ==
    /\ uuid_count = 0
    /\ generated = <<>>

(***************************************************************************)
(* Direct calls on a CorrelationManager (tracer.py:251-286), with the      *)
(* configuration and the arguments drawn from bounded sets.                *)
(***************************************************************************)
HeaderLists ==
    {<<"x-correlation-id", "x-request-id">>,
     <<"x-request-id", "x-correlation-id">>,
     <<"X-Correlation-ID">>,
     <<>>}

CorrelationConfigs ==
    {[headers |-> hs, propagation |-> p, generate_id |-> g] :
        hs \in HeaderLists, p \in BOOLEAN, g \in BOOLEAN}

ProbeKeys == {"x-correlation-id", "X-Correlation-ID", "x-request-id"}
ProbeValues == {"", "req-42", "req-7"}
ProbeDicts == UNION {[ks -> ProbeValues] : ks \in SUBSET ProbeKeys}
ProbeIds == {None, "", "req-42"}

CallExtractCorrelationId ==
    /\ \E headers \in ProbeDicts :
        probe' = [NoProbe EXCEPT
                    !.op = "extract",
                    !.headers = headers,
                    !.ret = extract_correlation_id(tracing_config.correlation, headers)]
    /\ UNCHANGED <<cfgVars, uuidVars, auxVars, mgrVars, reqVars>>

CallGetCorrelationId ==
    /\ \E headers \in ProbeDicts :
        LET cfg == tracing_config.correlation
            ret == get_correlation_id(cfg, headers, uuid_count)
        IN  /\ Generates(cfg, headers) => uuid_count < MaxUuid
            /\ probe' = [NoProbe EXCEPT
                            !.op = "resolve", !.headers = headers, !.ret = ret]
            /\ IF Generates(cfg, headers)
               THEN /\ uuid_count' = uuid_count + 1
                    /\ generated' = Append(generated, ret)
               ELSE UNCHANGED uuidVars
    /\ UNCHANGED <<cfgVars, auxVars, mgrVars, reqVars>>

CallGetPropagationHeaders ==
    /\ \E id \in ProbeIds :
        probe' = [NoProbe EXCEPT
                    !.op = "propagate",
                    !.arg = id,
                    !.ret_headers = get_propagation_headers(tracing_config.correlation, id)]
    /\ UNCHANGED <<cfgVars, uuidVars, auxVars, mgrVars, reqVars>>

CorrInit ==
    /\ tracing_config \in
        {[DefaultTracingConfig EXCEPT !.correlation = c] : c \in CorrelationConfigs}
    /\ fastapi_config = DefaultFastAPIConfig
    /\ custom_span_attributes = <<>>
    /\ InitUuid
    /\ probe = NoProbe
    /\ InitAux
    /\ InitManager
    /\ InitRequests

CorrNext ==
    \/ CallExtractCorrelationId
    \/ CallGetCorrelationId
    \/ CallGetPropagationHeaders

CorrSpec == CorrInit /\ [][CorrNext]_vars

(***************************************************************************)
(* The header policies on their own: a policy object is built and one of   *)
(* its methods, or match_header_pattern, is called with a header name.     *)
(***************************************************************************)
MaxPatterns == 2

PolicyNames ==
    {"x-tenant-id", "X-TENANT-ID", "user-agent", "USER-AGENT",
     "authorization", "AUTHORIZATION", "x-secret-token", "X-SECRET-TOKEN",
     "x-id", "X-ID"}

Patterns == {"x-*", "X-*", "*-id", "*-ID", "x-?d", "X-?D"}

PatternLists == UNION {[1..n -> Patterns] : n \in 0..MaxPatterns}

\* FastAPIConfig of create_app_with_patterns, custom_header_example.py:99-117
PatternsExampleConfig ==
    [DefaultFastAPIConfig EXCEPT
        !.capture_request_headers = <<"user-agent", "content-type">>,
        !.header_patterns = <<"x-*", "cf-*", "cloudfront-*", "*-id">>,
        !.redact_headers = <<"authorization", "cookie", "x-api-key", "x-secret-*">>]

FastAPIPolicies ==
    {DefaultFastAPIConfig,
     PatternsExampleConfig,
     [DefaultFastAPIConfig EXCEPT
        !.capture_request_headers = <<"user-agent">>,
        !.header_patterns = <<"x-*">>],
     [DefaultFastAPIConfig EXCEPT
        !.capture_request_headers = <<"USER-AGENT">>,
        !.header_patterns = <<"*-ID">>,
        !.redact_headers = <<"X-Secret-Token">>],
     [DefaultFastAPIConfig EXCEPT
        !.capture_request_headers = @ \o <<"Authorization">>]}

HTTPClientPolicies ==
    {DefaultHTTPClientConfig,
     [DefaultHTTPClientConfig EXCEPT !.header_patterns = <<>>],
     [DefaultHTTPClientConfig EXCEPT
        !.capture_headers = <<"USER-AGENT", "Authorization">>,
        !.header_patterns = <<"*-ID">>],
     [DefaultHTTPClientConfig EXCEPT
        !.capture_headers = <<>>,
        !.redact_headers = <<"X-Secret-Token">>]}

PolicyProbe(op, class, policy, name, patterns, ret) ==
    [op |-> op, class |-> class, policy |-> policy, name |-> name,
     patterns |-> patterns, ret |-> ret]

CallMatchHeaderPattern ==
    /\ \E name \in PolicyNames, patterns \in PatternLists :
        probe' = PolicyProbe("match", "function", None, name, patterns,
                             match_header_pattern(name, patterns))
    /\ UNCHANGED <<cfgVars, uuidVars, auxVars, mgrVars, reqVars>>

CallShouldCaptureHeader ==
    /\ \E cfg \in FastAPIPolicies, name \in PolicyNames :
        probe' = PolicyProbe("capture", "FastAPIConfig", cfg, name,
                             cfg.header_patterns,
                             should_capture_header(cfg, name))
    /\ UNCHANGED <<cfgVars, uuidVars, auxVars, mgrVars, reqVars>>

CallShouldRedactHeader ==
    /\ \E cfg \in FastAPIPolicies, name \in PolicyNames :
        probe' = PolicyProbe("redact", "FastAPIConfig", cfg, name,
                             cfg.header_patterns,
                             should_redact_header(cfg, name))
    /\ UNCHANGED <<cfgVars, uuidVars, auxVars, mgrVars, reqVars>>

CallClientShouldCaptureHeader ==
    /\ \E cfg \in HTTPClientPolicies, name \in PolicyNames :
        probe' = PolicyProbe("capture", "HTTPClientConfig", cfg, name,
                             cfg.header_patterns,
                             HTTPClientConfig_should_capture_header(cfg, name))
    /\ UNCHANGED <<cfgVars, uuidVars, auxVars, mgrVars, reqVars>>

CallClientShouldRedactHeader ==
    /\ \E cfg \in HTTPClientPolicies, name \in PolicyNames :
        probe' = PolicyProbe("redact", "HTTPClientConfig", cfg, name,
                             cfg.header_patterns,
                             HTTPClientConfig_should_redact_header(cfg, name))
    /\ UNCHANGED <<cfgVars, uuidVars, auxVars, mgrVars, reqVars>>

PolicyInit ==
    /\ tracing_config = DefaultTracingConfig
    /\ fastapi_config = DefaultFastAPIConfig
    /\ custom_span_attributes = <<>>
    /\ InitUuid
    /\ probe = NoProbe
    /\ InitAux
    /\ InitManager
    /\ InitRequests

PolicyNext ==
    \/ CallMatchHeaderPattern
    \/ CallShouldCaptureHeader
    \/ CallShouldRedactHeader
    \/ CallClientShouldCaptureHeader
    \/ CallClientShouldRedactHeader

PolicySpec == PolicyInit /\ [][PolicyNext]_vars

(***************************************************************************)
(* tracing/tracer.py: TracingManager.  Providers, processors and tracers   *)
(* are numbered by the setup() call that built them; 0 stands for None.    *)
(***************************************************************************)
\* the statements of setup() that call into the backend, in program order
SetupSteps ==
    <<"resource", "provider", "sampler", "exporter", "processor", "register",
      "install", "tracer">>

StepIndex(step) == CHOOSE i \in 1..Len(SetupSteps) : SetupSteps[i] = step

\* the import at tracer.py:15-19 succeeded
SAMPLER_AVAILABLE == TRUE

\* the steps at which a setup() run under this configuration can raise; the
\* last step, trace.get_tracer on the provider just built, only constructs
\* a Tracer object
FailurePoints(cfg) ==
    {"none"} \cup
    {step \in SeqRange(SetupSteps) \ {"tracer"} :
        step = "sampler" => (cfg.sampling_rate # None /\ SAMPLER_AVAILABLE)}

\* the run got past this step
Completed(step, fail_at) ==
    fail_at = "none" \/ StepIndex(step) < StepIndex(fail_at)

\* fields of the manager after a setup() run numbered id that raised at
\* fail_at ("none": no statement raised)
SetupFields(m, id, fail_at) ==
    [tracer_provider |-> IF Completed("provider", fail_at) THEN id
                         ELSE m.tracer_provider,
     span_processor |-> IF Completed("processor", fail_at) THEN id
                        ELSE m.span_processor,
     tracer |-> IF Completed("tracer", fail_at) THEN id ELSE m.tracer,
     is_setup |-> IF fail_at = "none" THEN TRUE ELSE m.is_setup]

\* opentelemetry.trace.set_tracer_provider installs a provider once per process
SetTracerProvider(current, id, fail_at) ==
    IF Completed("install", fail_at) /\ current = 0 THEN id ELSE current

\* the value setup() returns: every exception is caught at tracer.py:131
SetupReturn(fail_at) == IF fail_at = "none" THEN "true" ELSE "false"

is_ready(m) == m.is_setup /\ m.tracer # 0

Setup ==
    /\ setup_calls < MaxSetups
    /\ \E fail_at \in FailurePoints(tracing_config) :
        /\ manager' = SetupFields(manager, setup_calls + 1, fail_at)
        /\ global_provider' = SetTracerProvider(global_provider, setup_calls + 1, fail_at)
        /\ mgr_call' = [op |-> "setup", fail_at |-> fail_at,
                        ret |-> SetupReturn(fail_at)]
        /\ mgr_history' = [last_setup |-> SetupReturn(fail_at),
                           shut_down |-> FALSE]
    /\ setup_calls' = setup_calls + 1
    /\ phase' = "serving"
    /\ UNCHANGED <<shutdown_calls, released>>
    /\ UNCHANGED <<cfgVars, uuidVars, probe, auxVars, reqVars>>

\* setup_tracing(config): a new TracingManager, then setup() on it
SetupTracing ==
    /\ setup_calls < MaxSetups
    /\ \E fail_at \in FailurePoints(tracing_config) :
        /\ manager' = SetupFields(NewManager, setup_calls + 1, fail_at)
        /\ global_provider' = SetTracerProvider(global_provider, setup_calls + 1, fail_at)
        /\ mgr_call' = [op |-> "setup_tracing", fail_at |-> fail_at,
                        ret |-> SetupReturn(fail_at)]
        /\ mgr_history' = [last_setup |-> SetupReturn(fail_at),
                           shut_down |-> FALSE]
    /\ setup_calls' = setup_calls + 1
    /\ phase' = "serving"
    /\ UNCHANGED <<shutdown_calls, released>>
    /\ UNCHANGED <<cfgVars, uuidVars, probe, auxVars, reqVars>>

\* a shutdown that calls shutdown() on both fields whatever they hold
ShutdownReleases_unguarded(m) ==
    <<<<"processor", m.span_processor>>, <<"provider", m.tracer_provider>>>>

\* what one shutdown() call shuts down, in order
ShutdownReleases(m) ==
    (IF m.span_processor # 0 THEN <<<<"processor", m.span_processor>>>> ELSE <<>>)
    \o (IF m.tracer_provider # 0 THEN <<<<"provider", m.tracer_provider>>>> ELSE <<>>)

\* how a shutdown() call ends: calling .shutdown() on None raises
\* AttributeError; the processor and the provider of the backend return from
\* shutdown() also when they were shut down before
ShutdownReturn(releases) ==
    IF \E i \in 1..Len(releases) : releases[i][2] = 0
    THEN "AttributeError" ELSE "none"

Shutdown ==
    /\ shutdown_calls < MaxShutdowns
    /\ shutdown_calls' = shutdown_calls + 1
    /\ released' = released \o ShutdownReleases(manager)
    /\ mgr_call' = [op |-> "shutdown", fail_at |-> "none",
                    ret |-> ShutdownReturn(ShutdownReleases(manager))]
    /\ mgr_history' = [mgr_history EXCEPT !.shut_down = TRUE]
    /\ UNCHANGED <<manager, global_provider, setup_calls, phase>>
    /\ UNCHANGED <<cfgVars, uuidVars, probe, auxVars, reqVars>>

GetTracer ==
    /\ mgr_call' = [op |-> "get_tracer", fail_at |-> "none",
                    ret |-> IF ~manager.is_setup \/ manager.tracer = 0
                            THEN "RuntimeError" ELSE "tracer"]
    /\ UNCHANGED <<manager, global_provider, setup_calls, shutdown_calls,
                   released, mgr_history, phase>>
    /\ UNCHANGED <<cfgVars, uuidVars, probe, auxVars, reqVars>>

IsReady ==
    /\ mgr_call' = [op |-> "is_ready", fail_at |-> "none",
                    ret |-> IF is_ready(manager) THEN "true" ELSE "false"]
    /\ UNCHANGED <<manager, global_provider, setup_calls, shutdown_calls,
                   released, mgr_history, phase>>
    /\ UNCHANGED <<cfgVars, uuidVars, probe, auxVars, reqVars>>

\* Optional[float] values of TracingConfig.sampling_rate, as Python prints them
SamplingRates == {None, "0.0", "0.5"}

\* truth value of an Optional[float]: None and 0.0 are false
FloatTruthy(rate) == rate # None /\ rate # "0.0"

ALWAYS_ON == "parentbased_always_on"

\* the sampler of the provider setup() built, tracer.py:69-73: the SDK's
\* default unless a rate is configured
ProviderSampler(cfg) ==
    IF cfg.sampling_rate # None /\ SAMPLER_AVAILABLE
    THEN "traceidratio=" \o cfg.sampling_rate
    ELSE ALWAYS_ON

\* TracingConfig.get_env_vars, config.py:98-107
get_env_vars(cfg) ==
    [OTEL_SERVICE_NAME |-> cfg.service_name,
     OTEL_TRACES_SAMPLER |-> IF FloatTruthy(cfg.sampling_rate)
                             THEN "traceidratio=" \o cfg.sampling_rate
                             ELSE ALWAYS_ON]

GetEnvVars ==
    /\ mgr_call' = [op |-> "get_env_vars", fail_at |-> "none",
                    ret |-> get_env_vars(tracing_config)]
    /\ UNCHANGED <<manager, global_provider, setup_calls, shutdown_calls,
                   released, mgr_history, phase>>
    /\ UNCHANGED <<cfgVars, uuidVars, probe, auxVars, reqVars>>

MgrInit ==
    /\ tracing_config \in
        {[DefaultTracingConfig EXCEPT !.sampling_rate = sr] : sr \in SamplingRates}
    /\ fastapi_config = DefaultFastAPIConfig
    /\ custom_span_attributes = <<>>
    /\ InitUuid
    /\ probe = NoProbe
    /\ InitAux
    /\ InitManager
    /\ InitRequests

MgrNext ==
    \/ Setup
    \/ SetupTracing
    \/ Shutdown
    \/ GetTracer
    \/ IsReady
    \/ GetEnvVars

MgrSpec == MgrInit /\ [][MgrNext]_vars

\* C5: setup() and setup_tracing() never raise; a run in which a step fails
\* returns false and leaves is_ready() false, a run without a failure
\* returns true and makes is_ready() true.
C5_SetupNeverRaises ==
    mgr_call.op \in {"setup", "setup_tracing"} =>
        IF mgr_call.fail_at = "none"
        THEN mgr_call.ret = "true" /\ is_ready(manager)
        ELSE mgr_call.ret = "false" /\ ~is_ready(manager)

(***************************************************************************)
(* Inbound requests.  The ASGI scope carries the request headers as a list *)
(* of (name, value) pairs with lower-case names.                           *)
(***************************************************************************)
HeaderPairs ==
    {<<"x-correlation-id", "req-42">>, <<"x-correlation-id", "">>,
     <<"x-request-id", "req-7">>, <<"authorization", "secret">>,
     <<"correlation-id", "abc">>}

\* header lists of at most MaxHeaders pairs, no pair twice
ScopeHeaderLists ==
    {pairs \in UNION {[1..n -> HeaderPairs] : n \in 0..MaxHeaders} :
        \A i, j \in 1..Len(pairs) : i # j => pairs[i] # pairs[j]}

ClientHosts == {None, "10.0.0.7"}

REDACTED == "[REDACTED]"

\* an attribute key that is the bare header name
HeaderAttrKey_bare(header_name) == header_name

\* f"http.request.header.{header_name}", tracer.py:230
HeaderAttrKey(header_name) == "http.request.header." \o header_name

\* the dict the hook builds at tracer.py:209-213, as its items in iteration
\* order: a key keeps the place of its first pair and the value of its last
RECURSIVE HookItems(_, _)
HookItems(pairs, i) ==
    IF i > Len(pairs) THEN <<>>
    ELSE IF \E j \in 1..(i - 1) : lower[pairs[j][1]] = lower[pairs[i][1]]
         THEN HookItems(pairs, i + 1)
         ELSE LET last == CHOOSE j \in i..Len(pairs) :
                            /\ lower[pairs[j][1]] = lower[pairs[i][1]]
                            /\ \A k \in (j + 1)..Len(pairs) :
                                    lower[pairs[k][1]] # lower[pairs[i][1]]
              IN  <<<<lower[pairs[i][1]], pairs[last][2]>>>> \o HookItems(pairs, i + 1)

\* the loop of request_hook (tracer.py:219-238) from item i on; cid is the
\* hook's local correlation_id
RECURSIVE HookLoop(_, _, _, _, _)
HookLoop(cfg, items, i, attrs, cid) ==
    IF i > Len(items) THEN attrs
    ELSE LET header_name == items[i][1]
             header_value == items[i][2]
         IN  IF ~should_capture_header(cfg, header_name)
             THEN HookLoop(cfg, items, i + 1, attrs, cid)
             ELSE LET value_to_set == IF should_redact_header(cfg, header_name)
                                      THEN REDACTED ELSE header_value
                      captured == Put(attrs, HeaderAttrKey(header_name), value_to_set)
                  IN  IF /\ \/ Contains("correlation", header_name)
                            \/ Contains("request-id", header_name)
                         /\ ~Truthy(cid)
                      THEN HookLoop(cfg, items, i + 1,
                                    Put(captured, "correlation_id", header_value),
                                    header_value)
                      ELSE HookLoop(cfg, items, i + 1, captured, cid)

\* request_hook(span, scope), tracer.py:205-238
request_hook(cfg, is_recording, pairs, attrs) ==
    IF is_recording THEN HookLoop(cfg, HookItems(pairs, 1), 1, attrs, None)
    ELSE attrs

\* dict(request.headers), fastapi.py:68: every name with its first value
RequestHeadersDict(pairs) ==
    [k \in {pairs[i][1] : i \in 1..Len(pairs)} |->
        pairs[CHOOSE i \in 1..Len(pairs) :
                /\ pairs[i][1] = k
                /\ \A j \in 1..(i - 1) : pairs[j][1] # k][2]]

\* the server span of a new request and the auto-instrumentation hook on it.
\* Without an installed provider the current span is a non-recording one.
RequestHookOn(r, lists, hosts) ==
    /\ phase = "serving"
    /\ pc[r] = "idle"
    /\ \E pairs \in lists, host \in hosts,
          is_recording \in (IF global_provider # 0 THEN BOOLEAN ELSE {FALSE}) :
        /\ scope_headers' = [scope_headers EXCEPT ![r] = pairs]
        /\ client' = [client EXCEPT ![r] = host]
        /\ recording' = [recording EXCEPT ![r] = is_recording]
        /\ attributes' = [attributes EXCEPT
                            ![r] = request_hook(fastapi_config, is_recording,
                                                pairs, EmptyDict)]
    /\ pc' = [pc EXCEPT ![r] = "hooked"]
    /\ UNCHANGED <<span_events, correlation_id, middleware_error, invocations,
                   result, outbound>>
    /\ UNCHANGED <<cfgVars, uuidVars, probe, auxVars, mgrVars>>

RequestHook(r) == RequestHookOn(r, ScopeHeaderLists, ClientHosts)

(***************************************************************************)
(* framework/fastapi.py: RequestTracingMiddleware.dispatch                 *)
(***************************************************************************)
RequestMethod == "GET"
RequestPath == "/orders"
ProcessingTime == "0.012"

Present(v) == Truthy(v) /\ v # "not-found"

\* the set_attribute calls of fastapi.py:79-113 for a resolved id, in order
CorrelationWrites(cfg, headers_dict, host, cid) ==
    LET client_host == IF host # None THEN host ELSE "unknown"
        edge_location == Get(headers_dict, "x-edge-location")
        cf_id == Get(headers_dict, "x-amz-cf-id")
        request_id == Get(headers_dict, "x-request-id")
        Opt(cond, key, value) == IF cond THEN <<<<key, value>>>> ELSE <<>>
    IN  <<<<"correlation_id", cid>>,
          <<"service.name", cfg.service_name>>,
          <<"service.port", "8000">>,
          <<"request.method", RequestMethod>>,
          <<"request.path", RequestPath>>,
          <<"client.ip", client_host>>>>
        \o Opt(Present(edge_location), "cloudfront.edge_location", edge_location)
        \o Opt(Present(cf_id), "cloudfront.distribution_id", cf_id)
        \o Opt(Present(request_id), "cloudfront.request_id", request_id)
        \o <<<<"correlation.id", cid>>,
             <<"x-correlation-id", cid>>,
             <<"http.request.header.x-correlation-id", cid>>>>
        \o Opt(Present(edge_location), "x-edge-location", edge_location)
        \o Opt(Present(request_id), "x-request-id", request_id)
        \o Opt(Present(cf_id), "x-amz-cf-id", cf_id)

\* all set_attribute calls of one dispatch on a recording span
EnrichmentWrites(cfg, custom, headers_dict, host, cid) ==
    (IF Truthy(cid) THEN CorrelationWrites(cfg, headers_dict, host, cid) ELSE <<>>)
    \o custom

RECURSIVE ApplyWrites(_, _, _)
ApplyWrites(attrs, writes, n) ==
    IF n = 0 THEN attrs
    ELSE LET before == ApplyWrites(attrs, writes, n - 1)
         IN  Put(before, writes[n][1], writes[n][2])

\* a dispatch that never skips its instrumentation
skip_tracing_never(cfg) == FALSE

\* fastapi.py:56-58: dispatch skips tracing when the middleware is not enabled
skip_tracing(cfg) == ~cfg.enable_middleware

\* the exception dict(request.headers) raises when the headers of the request
\* cannot be converted
HeaderScanError == "HeaderScanError"

\* fastapi.py:53-128 (and 157-161): dispatch up to its first call_next.
\* scan_raises: dict(request.headers) at fastapi.py:68, which no try block
\* encloses, raises.  failed_write = k > 0: the k-th set_attribute call raises.
Dispatch(r) ==
    /\ pc[r] = "hooked"
    /\ IF skip_tracing(fastapi_config)
       THEN /\ pc' = [pc EXCEPT ![r] = "handler"]
            /\ UNCHANGED <<attributes, correlation_id, middleware_error,
                           uuidVars, result>>
       ELSE \E scan_raises \in BOOLEAN :
            IF scan_raises
            THEN /\ result' = [result EXCEPT
                        ![r] = [NoResult EXCEPT !.kind = "raise",
                                                !.exc = HeaderScanError]]
                 /\ pc' = [pc EXCEPT ![r] = "done"]
                 /\ UNCHANGED <<attributes, correlation_id, middleware_error,
                                uuidVars>>
            ELSE IF ~recording[get_current_span(r)]
            THEN /\ pc' = [pc EXCEPT ![r] = "handler"]
                 /\ UNCHANGED <<attributes, correlation_id, middleware_error,
                                uuidVars, result>>
            ELSE LET cfg == tracing_config.correlation
                     headers_dict == RequestHeadersDict(scope_headers[r])
                     cid == get_correlation_id(cfg, headers_dict, uuid_count)
                     writes == EnrichmentWrites(tracing_config, custom_span_attributes,
                                                headers_dict, client[r], cid)
                 IN  /\ Generates(cfg, headers_dict) => uuid_count < MaxUuid
                     /\ IF Generates(cfg, headers_dict)
                        THEN /\ uuid_count' = uuid_count + 1
                             /\ generated' = Append(generated, cid)
                        ELSE UNCHANGED uuidVars
                     /\ correlation_id' = [correlation_id EXCEPT ![r] = cid]
                     /\ UNCHANGED result
                     /\ \E failed_write \in 0..Len(writes) :
                         IF failed_write = 0
                         THEN /\ attributes' = [attributes EXCEPT
                                     ![get_current_span(r)] = ApplyWrites(@, writes, Len(writes))]
                              /\ pc' = [pc EXCEPT ![r] = "handler"]
                              /\ UNCHANGED middleware_error
                         ELSE /\ attributes' = [attributes EXCEPT
                                     ![get_current_span(r)] = ApplyWrites(@, writes, failed_write - 1)]
                              /\ pc' = [pc EXCEPT ![r] = "fallback"]
                              /\ middleware_error' =
                                     [middleware_error EXCEPT ![r] = "AttributeError"]
    /\ UNCHANGED <<scope_headers, client, recording, span_events, invocations,
                   outbound>>
    /\ UNCHANGED <<cfgVars, probe, auxVars, mgrVars>>

\* the exception the i-th handler invocation raises
HandlerError(i) == "HandlerError-" \o ToString(i)

\* the response the i-th handler invocation returns
HandlerResponse(i) ==
    [kind |-> "response", status |-> 200, headers |-> EmptyDict,
     invocation |-> i, exc |-> None]

\* SpanManager.record_exception, tracer.py:328-331
record_exception(events, exception) ==
    events \o <<[call |-> "record_exception", arg |-> exception],
                [call |-> "set_status", arg |-> exception]>>

\* stamping that leaves the correlation header out
Stamp_without_correlation(headers, cfg, cid) ==
    Put(Put(headers, "X-Service-Name", cfg.service_name),
        "X-Processing-Time", ProcessingTime)

\* fastapi.py:134-139: the headers dispatch stamps on a response
Stamp(headers, cfg, cid) ==
    LET named == Put(headers, "X-Service-Name", cfg.service_name)
        correlated == IF Truthy(cid) THEN Put(named, "X-Correlation-ID", cid)
                      ELSE named
    IN  Put(correlated, "X-Processing-Time", ProcessingTime)

\* call_next at fastapi.py:58 or :128 returns a response
HandlerReturns(r) ==
    /\ pc[r] = "handler"
    /\ invocations' = [invocations EXCEPT ![r] = Append(@, "ok")]
    /\ LET i == Len(invocations[r]) + 1
       IN  IF skip_tracing(fastapi_config)
           THEN /\ result' = [result EXCEPT ![r] = HandlerResponse(i)]
                /\ pc' = [pc EXCEPT ![r] = "done"]
                /\ UNCHANGED <<span_events, middleware_error>>
           ELSE IF correlation_id[r] = Unbound
           THEN \* fastapi.py:136 reads a local that was never assigned
                /\ span_events' = [span_events EXCEPT
                        ![get_current_span(r)] = IF recording[get_current_span(r)]
                               THEN record_exception(@, "UnboundLocalError")
                               ELSE @]
                /\ middleware_error' =
                        [middleware_error EXCEPT ![r] = "UnboundLocalError"]
                /\ pc' = [pc EXCEPT ![r] = "fallback"]
                /\ UNCHANGED result
           ELSE /\ result' = [result EXCEPT
                        ![r] = [HandlerResponse(i) EXCEPT
                                  !.headers = Stamp(@, tracing_config,
                                                    correlation_id[r])]]
                /\ pc' = [pc EXCEPT ![r] = "done"]
                /\ UNCHANGED <<span_events, middleware_error>>
    /\ outbound' = [outbound EXCEPT ![r] = NoOutbound]
    /\ UNCHANGED <<scope_headers, client, recording, attributes, correlation_id>>
    /\ UNCHANGED <<cfgVars, uuidVars, probe, auxVars, mgrVars>>

\* call_next at fastapi.py:58 or :128 raises
HandlerRaises(r) ==
    /\ pc[r] = "handler"
    /\ invocations' = [invocations EXCEPT ![r] = Append(@, "raise")]
    /\ LET e == HandlerError(Len(invocations[r]) + 1)
       IN  IF skip_tracing(fastapi_config)
           THEN /\ result' = [result EXCEPT
                        ![r] = [NoResult EXCEPT !.kind = "raise", !.exc = e]]
                /\ pc' = [pc EXCEPT ![r] = "done"]
                /\ UNCHANGED <<span_events, middleware_error>>
           ELSE \* fastapi.py:146-155, then the handler at :157 catches the raise
                /\ span_events' = [span_events EXCEPT
                        ![get_current_span(r)] = IF recording[get_current_span(r)] THEN record_exception(@, e) ELSE @]
                /\ middleware_error' = [middleware_error EXCEPT ![r] = e]
                /\ pc' = [pc EXCEPT ![r] = "fallback"]
                /\ UNCHANGED result
    /\ outbound' = [outbound EXCEPT ![r] = NoOutbound]
    /\ UNCHANGED <<scope_headers, client, recording, attributes, correlation_id>>
    /\ UNCHANGED <<cfgVars, uuidVars, probe, auxVars, mgrVars>>

\* call_next at fastapi.py:161 returns a response
FallbackReturns(r) ==
    /\ pc[r] = "fallback"
    /\ invocations' = [invocations EXCEPT ![r] = Append(@, "ok")]
    /\ result' = [result EXCEPT ![r] = HandlerResponse(Len(invocations[r]) + 1)]
    /\ pc' = [pc EXCEPT ![r] = "done"]
    /\ outbound' = [outbound EXCEPT ![r] = NoOutbound]
    /\ UNCHANGED <<scope_headers, client, recording, attributes, span_events,
                   correlation_id, middleware_error>>
    /\ UNCHANGED <<cfgVars, uuidVars, probe, auxVars, mgrVars>>

\* call_next at fastapi.py:161 raises: Response("Internal Server Error", 500)
FallbackRaises(r) ==
    /\ pc[r] = "fallback"
    /\ invocations' = [invocations EXCEPT ![r] = Append(@, "raise")]
    /\ result' = [result EXCEPT
            ![r] = [NoResult EXCEPT !.kind = "response", !.status = 500]]
    /\ pc' = [pc EXCEPT ![r] = "done"]
    /\ outbound' = [outbound EXCEPT ![r] = NoOutbound]
    /\ UNCHANGED <<scope_headers, client, recording, attributes, span_events,
                   correlation_id, middleware_error>>
    /\ UNCHANGED <<cfgVars, uuidVars, probe, auxVars, mgrVars>>

(***************************************************************************)
(* utils/client.py: outbound calls.  The headers argument of a call is     *)
(* omitted, None or a dict.                                                *)
(***************************************************************************)
AsDict(d) == [kind |-> "dict", map |-> d]
NoneArg == [kind |-> "none", map |-> EmptyDict]

CallerHeaders ==
    {NoCaller, NoneArg,
     AsDict("X-Correlation-ID" :> "mine"),
     AsDict("accept" :> "json")}

\* the CorrelationConfig a CorrelatedClient was built with
ClientConfigs ==
    {DefaultCorrelationConfig,
     [DefaultCorrelationConfig EXCEPT !.headers = <<"X-Request-ID">>],
     [DefaultCorrelationConfig EXCEPT !.propagation = FALSE]}

AliasKeys == <<"correlation_id", "correlation.id", "x-correlation-id">>

\* an extraction that reads the attributes of a span that is not recording
extract_current_correlation_id_any_span(is_recording, attrs) ==
    IF \E i \in 1..Len(AliasKeys) : AliasKeys[i] \in DOMAIN attrs
    THEN attrs[AliasKeys[CHOOSE i \in 1..Len(AliasKeys) :
                    /\ AliasKeys[i] \in DOMAIN attrs
                    /\ \A j \in 1..(i - 1) : AliasKeys[j] \notin DOMAIN attrs]]
    ELSE None

\* CorrelatedClient._extract_current_correlation_id, client.py:98-113, and
\* the same loop in patched_request, client.py:160-172
extract_current_correlation_id(is_recording, attrs) ==
    IF is_recording /\ \E i \in 1..Len(AliasKeys) : AliasKeys[i] \in DOMAIN attrs
    THEN attrs[AliasKeys[CHOOSE i \in 1..Len(AliasKeys) :
                    /\ AliasKeys[i] \in DOMAIN attrs
                    /\ \A j \in 1..(i - 1) : AliasKeys[j] \notin DOMAIN attrs]]
    ELSE None

\* CorrelatedClient._get_correlation_headers, client.py:87-96
get_correlation_headers(cfg, is_recording, attrs) ==
    LET id == extract_current_correlation_id(is_recording, attrs)
    IN  IF Truthy(id) THEN get_propagation_headers(cfg, id) ELSE EmptyDict

\* a merge that compares header names as they are spelled
MergeHeaders_case_sensitive(request_headers, correlation_headers) ==
    LET added == {k \in DOMAIN correlation_headers : k \notin DOMAIN request_headers}
    IN  [k \in (DOMAIN request_headers) \cup added |->
            IF k \in added THEN correlation_headers[k] ELSE request_headers[k]]

\* the loops at client.py:79-81 and client.py:181-183
MergeHeaders(request_headers, correlation_headers) ==
    LET added == {k \in DOMAIN correlation_headers :
                    lower[k] \notin {lower[h] : h \in DOMAIN request_headers}}
    IN  [k \in (DOMAIN request_headers) \cup added |->
            IF k \in added THEN correlation_headers[k] ELSE request_headers[k]]

\* dict(headers) if headers else {}
HeadersOrEmpty(caller) == IF caller.kind = "dict" THEN caller.map ELSE EmptyDict

\* CorrelatedClient.request, client.py:70-85
ClientRequest(caller, enable_httpx, cfg, is_recording, attrs) ==
    IF enable_httpx
    THEN [outcome |-> "dispatched",
          sent |-> AsDict(MergeHeaders(HeadersOrEmpty(caller),
                            get_correlation_headers(cfg, is_recording, attrs))),
          exc |-> None]
    ELSE \* client.py:83 formats a local that was never assigned
         [outcome |-> "raised", sent |-> NoCaller, exc |-> "UnboundLocalError"]

\* patch_httpx.patched_request, client.py:155-188
PatchedRequest(caller, is_recording, attrs) ==
    LET id == extract_current_correlation_id(is_recording, attrs)
    IN  IF ~Truthy(id)
        THEN [outcome |-> "dispatched", sent |-> caller, exc |-> None]
        ELSE IF caller.kind = "none"
        THEN \* dict(None) at client.py:180
             [outcome |-> "raised", sent |-> NoCaller, exc |-> "TypeError"]
        ELSE [outcome |-> "dispatched",
              sent |-> AsDict(MergeHeaders(caller.map,
                                get_propagation_headers(DefaultCorrelationConfig, id))),
              exc |-> None]

\* the handler of request r calls request() on a CorrelatedClient built with
\* one of the given correlation configs and enable_httpx settings
OutboundClientCall(r, configs, enables) ==
    /\ pc[r] \in {"handler", "fallback"}
    /\ \E caller \in CallerHeaders, enable_httpx \in enables, cfg \in configs :
        LET out == ClientRequest(caller, enable_httpx, cfg, recording[get_current_span(r)], attributes[get_current_span(r)])
        IN  outbound' = [outbound EXCEPT
                ![r] = [via |-> "client", enable_httpx |-> enable_httpx,
                        config |-> cfg, caller |-> caller,
                        read_id |-> extract_current_correlation_id(recording[get_current_span(r)],
                                                                   attributes[get_current_span(r)]),
                        outcome |-> out.outcome, sent |-> out.sent,
                        exc |-> out.exc]]
    /\ UNCHANGED <<pc, scope_headers, client, recording, attributes, span_events,
                   correlation_id, middleware_error, invocations, result>>
    /\ UNCHANGED <<cfgVars, uuidVars, probe, auxVars, mgrVars>>

\* the handler of request r calls httpx.AsyncClient.request after patch_httpx()
OutboundPatchedCall(r) ==
    /\ pc[r] \in {"handler", "fallback"}
    /\ \E caller \in CallerHeaders :
        LET out == PatchedRequest(caller, recording[get_current_span(r)], attributes[get_current_span(r)])
        IN  outbound' = [outbound EXCEPT
                ![r] = [via |-> "patched", enable_httpx |-> TRUE,
                        config |-> DefaultCorrelationConfig, caller |-> caller,
                        read_id |-> extract_current_correlation_id(recording[get_current_span(r)],
                                                                   attributes[get_current_span(r)]),
                        outcome |-> out.outcome, sent |-> out.sent,
                        exc |-> out.exc]]
    /\ UNCHANGED <<pc, scope_headers, client, recording, attributes, span_events,
                   correlation_id, middleware_error, invocations, result>>
    /\ UNCHANGED <<cfgVars, uuidVars, probe, auxVars, mgrVars>>

(***************************************************************************)
(* Outbound calls on their own: the handler of a request is running, its   *)
(* current span is recording or not and carries any of the alias           *)
(* attributes (the handler may have set them itself; a span that has ended *)
(* is no longer recording and keeps its attributes).                       *)
(***************************************************************************)
AliasValues == {"", "req-42", "req-7"}

SpanAttributeSets ==
    UNION {[ks -> AliasValues] : ks \in SUBSET SeqRange(AliasKeys)}

OutInit ==
    /\ tracing_config = DefaultTracingConfig
    /\ fastapi_config = DefaultFastAPIConfig
    /\ custom_span_attributes = <<>>
    /\ InitUuid
    /\ probe = NoProbe
    /\ InitAux
    /\ InitManager
    /\ \E is_recording \in BOOLEAN, attrs \in SpanAttributeSets :
        /\ pc = [r \in ReqIds |-> IF r = 1 THEN "handler" ELSE "idle"]
        /\ recording = [r \in ReqIds |-> r = 1 /\ is_recording]
        /\ attributes = [r \in ReqIds |-> IF r = 1 THEN attrs ELSE EmptyDict]
    /\ scope_headers = [r \in ReqIds |-> <<>>]
    /\ client = [r \in ReqIds |-> None]
    /\ span_events = [r \in ReqIds |-> <<>>]
    /\ correlation_id = [r \in ReqIds |-> Unbound]
    /\ middleware_error = [r \in ReqIds |-> None]
    /\ invocations = [r \in ReqIds |-> <<>>]
    /\ result = [r \in ReqIds |-> NoResult]
    /\ outbound = [r \in ReqIds |-> NoOutbound]

OutNext ==
    \/ OutboundClientCall(1, ClientConfigs, BOOLEAN)
    \/ OutboundPatchedCall(1)

OutSpec == OutInit /\ [][OutNext]_vars

(***************************************************************************)
(* The service: setup_tracing at startup, then requests served one after   *)
(* the other.                                                              *)
(***************************************************************************)
\* the response has been sent and the span has ended; the request, its span
\* and the frame of dispatch are gone and the slot is free for the next request
Finish(r) ==
    /\ pc[r] = "done"
    /\ pc' = [pc EXCEPT ![r] = "idle"]
    /\ scope_headers' = [scope_headers EXCEPT ![r] = <<>>]
    /\ client' = [client EXCEPT ![r] = None]
    /\ recording' = [recording EXCEPT ![r] = FALSE]
    /\ attributes' = [attributes EXCEPT ![r] = EmptyDict]
    /\ span_events' = [span_events EXCEPT ![r] = <<>>]
    /\ correlation_id' = [correlation_id EXCEPT ![r] = Unbound]
    /\ middleware_error' = [middleware_error EXCEPT ![r] = None]
    /\ invocations' = [invocations EXCEPT ![r] = <<>>]
    /\ result' = [result EXCEPT ![r] = NoResult]
    /\ outbound' = [outbound EXCEPT ![r] = NoOutbound]
    /\ UNCHANGED <<cfgVars, uuidVars, probe, auxVars, mgrVars>>

\* the configurations a service is deployed with: the defaults, and the
\* defaults changed in one place
Deployment(correlation, fastapi, custom) ==
    [tracing |-> [DefaultTracingConfig EXCEPT !.correlation = correlation],
     fastapi |-> fastapi, custom |-> custom]

Deployments ==
    {Deployment(DefaultCorrelationConfig, DefaultFastAPIConfig, <<>>),
     Deployment([DefaultCorrelationConfig EXCEPT !.generate_id = FALSE],
                DefaultFastAPIConfig, <<>>),
     Deployment(DefaultCorrelationConfig,
                [DefaultFastAPIConfig EXCEPT !.enable_middleware = FALSE], <<>>),
     Deployment(DefaultCorrelationConfig,
                [DefaultFastAPIConfig EXCEPT
                    !.capture_request_headers = @ \o <<"Authorization">>,
                    !.redact_headers = <<"authorization">>], <<>>),
     Deployment(DefaultCorrelationConfig,
                [DefaultFastAPIConfig EXCEPT
                    !.redact_headers = @ \o <<"x-correlation-id">>], <<>>),
     Deployment(DefaultCorrelationConfig, DefaultFastAPIConfig,
                <<<<"team", "core">>>>)}

Init ==
    /\ \E d \in Deployments :
        /\ tracing_config = d.tracing
        /\ fastapi_config = d.fastapi
        /\ custom_span_attributes = d.custom
    /\ InitUuid
    /\ probe = NoProbe
    /\ InitAux
    /\ InitManager
    /\ InitRequests

Startup == phase = "startup" /\ SetupTracing

Next ==
    \/ Startup
    \/ RequestHook(1)
    \/ Dispatch(1)
    \/ OutboundClientCall(1, {tracing_config.correlation}, {TRUE})
    \/ OutboundPatchedCall(1)
    \/ HandlerReturns(1)
    \/ HandlerRaises(1)
    \/ FallbackReturns(1)
    \/ FallbackRaises(1)
    \/ Finish(1)

Spec == Init /\ [][Next]_vars

(***************************************************************************)
(* Two requests served concurrently by a service whose setup succeeded:    *)
(* the steps of the two requests interleave in every order.                *)
(***************************************************************************)
ConcHeaderLists ==
    {<<>>, <<<<"x-correlation-id", "req-42">>>>, <<<<"x-request-id", "req-7">>>>}

ConcInit ==
    /\ tracing_config = DefaultTracingConfig
    /\ fastapi_config = DefaultFastAPIConfig
    /\ custom_span_attributes = <<>>
    /\ InitUuid
    /\ probe = NoProbe
    /\ InitAux
    /\ manager = SetupFields(NewManager, 1, "none")
    /\ global_provider = 1
    /\ setup_calls = 1
    /\ shutdown_calls = 0
    /\ released = <<>>
    /\ mgr_call = [op |-> "setup_tracing", fail_at |-> "none", ret |-> "true"]
    /\ mgr_history = [last_setup |-> "true", shut_down |-> FALSE]
    /\ phase = "serving"
    /\ InitRequests

ConcStep(r) ==
    \/ RequestHookOn(r, ConcHeaderLists, {None})
    \/ Dispatch(r)
    \/ OutboundClientCall(r, {tracing_config.correlation}, {TRUE})
    \/ HandlerReturns(r)
    \/ HandlerRaises(r)
    \/ FallbackReturns(r)
    \/ FallbackRaises(r)
    \/ Finish(r)

ConcNext == \E r \in ReqIds : ConcStep(r)

ConcSpec == ConcInit /\ [][ConcNext]_vars

(***************************************************************************)
(* Requests that arrive through an edge network, at a service whose setup  *)
(* succeeded, with and without generation of correlation ids.              *)
(***************************************************************************)
EdgeHeaderPairs ==
    {<<"x-edge-location", "IAD89">>, <<"x-edge-location", "not-found">>,
     <<"x-amz-cf-id", "cf-1">>, <<"x-request-id", "req-7">>,
     <<"x-correlation-id", "req-42">>}

EdgeHeaderLists ==
    {pairs \in UNION {[1..n -> EdgeHeaderPairs] : n \in 0..MaxHeaders} :
        \A i, j \in 1..Len(pairs) : i # j => pairs[i][1] # pairs[j][1]}

EdgeInit ==
    /\ \E generate_id \in BOOLEAN :
        tracing_config =
            [DefaultTracingConfig EXCEPT !.correlation.generate_id = generate_id]
    /\ fastapi_config = DefaultFastAPIConfig
    /\ custom_span_attributes = <<>>
    /\ InitUuid
    /\ probe = NoProbe
    /\ InitAux
    /\ manager = SetupFields(NewManager, 1, "none")
    /\ global_provider = 1
    /\ setup_calls = 1
    /\ shutdown_calls = 0
    /\ released = <<>>
    /\ mgr_call = [op |-> "setup_tracing", fail_at |-> "none", ret |-> "true"]
    /\ mgr_history = [last_setup |-> "true", shut_down |-> FALSE]
    /\ phase = "serving"
    /\ InitRequests

EdgeNext ==
    \/ RequestHookOn(1, EdgeHeaderLists, ClientHosts)
    \/ Dispatch(1)
    \/ HandlerReturns(1)
    \/ HandlerRaises(1)
    \/ FallbackReturns(1)
    \/ FallbackRaises(1)
    \/ Finish(1)

EdgeSpec == EdgeInit /\ [][EdgeNext]_vars

(***************************************************************************)
(* A request on its way through a chain of services that all run this      *)
(* middleware with tracing set up: each service enriches the server span,  *)
(* and its handler calls the next service through a CorrelatedClient built *)
(* with the service's CorrelationConfig, passing no headers of its own.    *)
(***************************************************************************)
MaxHops == 3

ChainConfigs ==
    {DefaultCorrelationConfig,
     [DefaultCorrelationConfig EXCEPT !.headers = <<"x-request-id", "x-correlation-id">>],
     [DefaultCorrelationConfig EXCEPT !.headers = <<"X-Request-ID">>],
     [DefaultCorrelationConfig EXCEPT !.headers = <<"x-correlation-id">>],
     [DefaultCorrelationConfig EXCEPT !.generate_id = FALSE],
     [DefaultCorrelationConfig EXCEPT !.propagation = FALSE]}

\* the headers of the request that enters the chain
ChainEntryHeaders ==
    {<<>>,
     <<<<"x-correlation-id", "req-42">>>>,
     <<<<"x-request-id", "req-7">>>>,
     <<<<"x-request-id", "req-7">>, <<"x-correlation-id", "req-42">>>>}

\* the header pairs of an ASGI scope for the headers a client sent: the
\* server hands every name over in lower case
RECURSIVE ScopePairs(_)
ScopePairs(sent) ==
    IF DOMAIN sent = {} THEN <<>>
    ELSE LET k == CHOOSE k \in DOMAIN sent : TRUE
         IN  <<<<lower[k], sent[k]>>>>
             \o ScopePairs([x \in (DOMAIN sent) \ {k} |-> sent[x]])

\* the service at the next hop serves the request: hook, then dispatch up to
\* call_next, on a recording span and without a failing write
ChainReceive ==
    /\ chain.stage = "wire"
    /\ chain.hop < Len(chain.configs)
    /\ LET cfg == chain.configs[chain.hop + 1]
           tracing == [DefaultTracingConfig EXCEPT !.correlation = cfg]
           hooked == request_hook(DefaultFastAPIConfig, TRUE, chain.wire, EmptyDict)
           headers_dict == RequestHeadersDict(chain.wire)
           cid == get_correlation_id(cfg, headers_dict, uuid_count)
           writes == EnrichmentWrites(tracing, <<>>, headers_dict, None, cid)
       IN  /\ Generates(cfg, headers_dict) => uuid_count < MaxUuid
           /\ IF Generates(cfg, headers_dict)
              THEN /\ uuid_count' = uuid_count + 1
                   /\ generated' = Append(generated, cid)
              ELSE UNCHANGED uuidVars
           /\ chain' = [chain EXCEPT
                            !.hop = @ + 1,
                            !.stage = "handler",
                            !.span = ApplyWrites(hooked, writes, Len(writes)),
                            !.resolved = Append(@, cid)]
    /\ UNCHANGED <<cfgVars, probe, task, traced, mgrVars, reqVars>>

\* the handler of the service calls the next one: CorrelatedClient.request
\* without headers of the caller
ChainForward ==
    /\ chain.stage = "handler"
    /\ chain.hop < Len(chain.configs)
    /\ LET out == ClientRequest(NoCaller, TRUE, chain.configs[chain.hop],
                                TRUE, chain.span)
       IN  chain' = [chain EXCEPT
                        !.stage = "wire",
                        !.wire = ScopePairs(out.sent.map),
                        !.span = EmptyDict]
    /\ UNCHANGED <<cfgVars, uuidVars, probe, task, traced, mgrVars, reqVars>>

ChainInit ==
    /\ tracing_config = DefaultTracingConfig
    /\ fastapi_config = DefaultFastAPIConfig
    /\ custom_span_attributes = <<>>
    /\ InitUuid
    /\ probe = NoProbe
    /\ \E configs \in [1..MaxHops -> ChainConfigs], entry \in ChainEntryHeaders :
        chain = [NoChain EXCEPT !.configs = configs, !.stage = "wire",
                                !.wire = entry]
    /\ task = NoTask
    /\ traced = NoTraced
    /\ InitManager
    /\ InitRequests

ChainNext ==
    \/ ChainReceive
    \/ ChainForward

ChainSpec == ChainInit /\ [][ChainNext]_vars

(***************************************************************************)
(* framework/celery.py: the signal handlers of CeleryInstrumentor for one  *)
(* task run.  Celery sends task_prerun, then task_failure if the task      *)
(* raised, then task_postrun in either case.                               *)
(***************************************************************************)
TaskNames == {"add", "send_mail", "resize"}
TaskIds == {"t-1", "t-2"}
TaskExceptions == {"ValueError", "KeyError"}

\* task.request.headers: None, no trace context, or the context of the
\* publisher
TaskHeaders ==
    {NoneArg, AsDict(EmptyDict), AsDict("traceparent" :> "00-trace-1-span-9-01")}

\* TraceContextTextMapPropagator.extract(headers or {}): the parent context
ExtractContext(headers) ==
    IF headers.kind = "dict" THEN Get(headers.map, "traceparent") ELSE None

\* CeleryInstrumentor._task_prerun, celery.py:54-86
TaskPrerun ==
    /\ task.pc = "idle"
    /\ \E task_id \in TaskIds, name \in TaskNames, headers \in TaskHeaders :
        task' = [NoTask EXCEPT
                    !.pc = "running",
                    !.headers = headers,
                    !.parent = ExtractContext(headers),
                    !.task_id = task_id,
                    !.name = name,
                    !.otel_span = TRUE,
                    !.span = SetAttributes(NewSpan,
                                <<<<"celery.task_id", task_id>>,
                                  <<"celery.task_name", name>>,
                                  <<"messaging.system", "celery">>,
                                  <<"messaging.operation", "process">>>>)]
    /\ UNCHANGED <<cfgVars, uuidVars, probe, chain, traced, mgrVars, reqVars>>

\* the task raised: CeleryInstrumentor._task_failure, celery.py:99-114
TaskFailure ==
    /\ task.pc = "running"
    /\ \E exception \in TaskExceptions :
        task' = [task EXCEPT
                    !.pc = "failed",
                    !.exception = exception,
                    !.span = IF task.otel_span
                             THEN EndSpan(RecordException(
                                    SetAttributes(@,
                                        <<<<"celery.state", "FAILURE">>,
                                          <<"error", TRUE>>,
                                          <<"error.type", exception>>,
                                          <<"error.message", "message of " \o exception>>>>),
                                    exception))
                             ELSE @]
    /\ UNCHANGED <<cfgVars, uuidVars, probe, chain, traced, mgrVars, reqVars>>

\* CeleryInstrumentor._task_postrun, celery.py:88-97; Celery passes the
\* state of the task, which may be None
TaskPostrun ==
    /\ task.pc \in {"running", "failed"}
    /\ \E state \in (IF task.pc = "failed" THEN {"FAILURE"} ELSE {None, "SUCCESS"}) :
        task' = [task EXCEPT
                    !.pc = "done",
                    !.state = state,
                    !.span = IF task.otel_span
                             THEN EndSpan(SetAttributes(@,
                                    <<<<"celery.state",
                                        IF Truthy(state) THEN state ELSE "SUCCESS">>>>))
                             ELSE @]
    /\ UNCHANGED <<cfgVars, uuidVars, probe, chain, traced, mgrVars, reqVars>>

\* the worker takes the next task
TaskDone ==
    /\ task.pc = "done"
    /\ task' = NoTask
    /\ UNCHANGED <<cfgVars, uuidVars, probe, chain, traced, mgrVars, reqVars>>

CeleryInit ==
    /\ tracing_config = DefaultTracingConfig
    /\ fastapi_config = DefaultFastAPIConfig
    /\ custom_span_attributes = <<>>
    /\ InitUuid
    /\ probe = NoProbe
    /\ InitAux
    /\ InitManager
    /\ InitRequests

CeleryNext ==
    \/ TaskPrerun
    \/ TaskFailure
    \/ TaskPostrun
    \/ TaskDone

CelerySpec == CeleryInit /\ [][CeleryNext]_vars

(***************************************************************************)
(* tracing/decorators.py: one call of a function wrapped by trace_function *)
(***************************************************************************)
Wrappers == {"sync", "async"}
FuncNames == {"sync_test_function", "call_openai"}
SpanNames == {None, "llm_api_call"}

\* the attributes argument of trace_function, as its items
StaticAttributes == {<<>>, <<<<"test.type", "sync">>>>}

ResultValues == {None, "8", "15", "text"}

\* what the wrapped function can raise: subclasses of Exception, and one
\* exception outside Exception (the cancellation of a coroutine, an
\* interrupt of a synchronous function)
Exceptions == {"ValueError", "KeyError"}

Raisable(wrapper) ==
    Exceptions \cup {IF wrapper = "async" THEN "CancelledError"
                     ELSE "KeyboardInterrupt"}

\* isinstance(e, Exception)
IsException(e) == e \in Exceptions

Module == "app.tasks"

\* the wrapper up to the call of the wrapped function, decorators.py:39-50
\* (sync: 68-79)
TracedCall ==
    /\ traced.pc = "idle"
    /\ \E wrapper \in Wrappers, name \in SpanNames, func \in FuncNames,
          static \in StaticAttributes :
        traced' = [NoTraced EXCEPT
                    !.pc = "running",
                    !.wrapper = wrapper,
                    !.func = func,
                    !.span_name = IF Truthy(name) THEN name
                                  ELSE Module \o "." \o func,
                    !.span = SetAttributes(
                                SetAttributes(NewSpan, static),
                                <<<<"code.function", func>>,
                                  <<"code.namespace", Module>>>>)]
    /\ UNCHANGED <<cfgVars, uuidVars, probe, chain, task, mgrVars, reqVars>>

\* the wrapped function returns: decorators.py:52-54 (81-83), then the exit
\* of the with block ends the span
FuncReturns ==
    /\ traced.pc = "running"
    /\ \E value \in ResultValues :
        traced' = [traced EXCEPT
                    !.pc = "done",
                    !.func_outcome = [kind |-> "return", value |-> value],
                    !.outcome = [kind |-> "return", value |-> value],
                    !.span = EndSpan(@)]
    /\ UNCHANGED <<cfgVars, uuidVars, probe, chain, task, mgrVars, reqVars>>

\* a record of the error that leaves out its type
ErrorItems_untyped(e) ==
    <<<<"error", TRUE>>, <<"error.message", "message of " \o e>>>>

\* the attributes of decorators.py:56-60 (85-89)
ErrorItems(e) ==
    <<<<"error", TRUE>>, <<"error.type", e>>,
      <<"error.message", "message of " \o e>>>>

\* the wrapped function raises: the except Exception clause at
\* decorators.py:55-62 (84-91) handles subclasses of Exception only; the
\* exit of the with block ends the span in every case
FuncRaises ==
    /\ traced.pc = "running"
    /\ \E e \in Raisable(traced.wrapper) :
        traced' = [traced EXCEPT
                    !.pc = "done",
                    !.func_outcome = [kind |-> "raise", value |-> e],
                    !.outcome = [kind |-> "raise", value |-> e],
                    !.span = IF IsException(e)
                             THEN EndSpan(RecordException(
                                    SetAttributes(@, ErrorItems(e)), e))
                             ELSE EndSpan(@)]
    /\ UNCHANGED <<cfgVars, uuidVars, probe, chain, task, mgrVars, reqVars>>

\* the caller goes on to its next call
TracedDone ==
    /\ traced.pc = "done"
    /\ traced' = NoTraced
    /\ UNCHANGED <<cfgVars, uuidVars, probe, chain, task, mgrVars, reqVars>>

TracedInit ==
    /\ tracing_config = DefaultTracingConfig
    /\ fastapi_config = DefaultFastAPIConfig
    /\ custom_span_attributes = <<>>
    /\ InitUuid
    /\ probe = NoProbe
    /\ InitAux
    /\ InitManager
    /\ InitRequests

TracedNext ==
    \/ TracedCall
    \/ FuncReturns
    \/ FuncRaises
    \/ TracedDone

TracedSpec == TracedInit /\ [][TracedNext]_vars

(***************************************************************************)
(* Claims about CorrelationManager, checked under CorrSpec.                *)
(***************************************************************************)
\* keys of a header dict that name the i-th configured header in some
\* letter-casing and carry a non-empty value
PresentKeys(cfg, headers, i) ==
    {k \in DOMAIN headers :
        lower[k] = lower[cfg.headers[i]] /\ headers[k] # ""}

PresentRanks(cfg, headers) ==
    {i \in 1..Len(cfg.headers) : PresentKeys(cfg, headers, i) # {}}

\* no key of the dict names a configured header, in any letter-casing
NoConfiguredHeader(cfg, headers) ==
    \A k \in DOMAIN headers :
        \A i \in 1..Len(cfg.headers) : lower[k] # lower[cfg.headers[i]]

\* C6: extract returns the value of the highest-priority configured header
\* that the map holds with a non-empty value, whatever letter-casing the map
\* uses for the name, and not-found only when there is no such header.
C6_ExtractCaseInsensitive ==
    probe.op = "extract" =>
        LET cfg == tracing_config.correlation
            ranks == PresentRanks(cfg, probe.headers)
        IN  IF ranks = {} THEN probe.ret = None
            ELSE LET best == CHOOSE i \in ranks : \A j \in ranks : i <= j
                 IN  probe.ret \in
                        {probe.headers[k] : k \in PresentKeys(cfg, probe.headers, best)}

\* C7: on a header map holding none of the configured headers, resolve
\* returns a non-empty identifier that no earlier call returned when
\* generate-on-missing is enabled, and unresolved when it is disabled; the
\* generated identifiers are pairwise different.
C7_ResolveGeneratesFresh ==
    /\ \A i, j \in 1..Len(generated) : i # j => generated[i] # generated[j]
    /\ (probe.op = "resolve"
            /\ NoConfiguredHeader(tracing_config.correlation, probe.headers)) =>
        IF tracing_config.correlation.generate_id
        THEN /\ Truthy(probe.ret)
             /\ generated # <<>>
             /\ probe.ret = generated[Len(generated)]
             /\ \A i \in 1..(Len(generated) - 1) : generated[i] # probe.ret
        ELSE probe.ret = None

\* a second generated identifier has just been returned for a map without
\* any configured header
C7_Witness ==
    /\ probe.op = "resolve"
    /\ NoConfiguredHeader(tracing_config.correlation, probe.headers)
    /\ tracing_config.correlation.generate_id
    /\ Len(generated) = 2
    /\ probe.ret = generated[2]

\* C8 as stated: propagationHeaders(id) is empty when id is unresolved or
\* propagation is disabled, and otherwise has exactly one entry, keyed by the
\* first configured header name and holding id.
C8_PropagationFirstConfigured ==
    probe.op = "propagate" =>
        LET cfg == tracing_config.correlation
        IN  IF ~Truthy(probe.arg) \/ ~cfg.propagation
            THEN probe.ret_headers = EmptyDict
            ELSE /\ cfg.headers # <<>>
                 /\ probe.ret_headers = (cfg.headers[1] :> probe.arg)

\* C8 amended: propagationHeaders(id) is empty when id is unresolved or
\* propagation is disabled, and otherwise has exactly one entry holding id,
\* keyed by the first configured header name, or by "x-correlation-id" when
\* the configured header list is empty.
C8_PropagationFirstOrDefault ==
    probe.op = "propagate" =>
        LET cfg == tracing_config.correlation
        IN  IF ~Truthy(probe.arg) \/ ~cfg.propagation
            THEN probe.ret_headers = EmptyDict
            ELSE /\ Cardinality(DOMAIN probe.ret_headers) = 1
                 /\ \A k \in DOMAIN probe.ret_headers :
                        /\ probe.ret_headers[k] = probe.arg
                        /\ IF cfg.headers # <<>> THEN k = cfg.headers[1]
                           ELSE k = "x-correlation-id"

\* a resolved id was propagated under a first configured header that is not
\* the default one
C8_Witness ==
    /\ probe.op = "propagate"
    /\ probe.arg = "req-42"
    /\ tracing_config.correlation.headers = <<"x-request-id", "x-correlation-id">>
    /\ probe.ret_headers = ("x-request-id" :> "req-42")

(***************************************************************************)
(* Claims about the inbound middleware, checked under Spec.                *)
(***************************************************************************)
Enabled == fastapi_config.enable_middleware

\* dispatch has returned or raised for request r
Returned(r) == pc[r] = "done"

\* a set_attribute call of dispatch raised for request r
EnrichmentFailed(r) == middleware_error[r] = "AttributeError"

\* the handler raised when dispatch invoked it after the enrichment
HandlerRaised(r) ==
    /\ ~EnrichmentFailed(r)
    /\ invocations[r] # <<>>
    /\ invocations[r][1] = "raise"

\* C1: with the middleware enabled, when the downstream handler raises during
\* dispatch, dispatch raises that same exception to its caller; it returns no
\* response in its place and raises no other error.
C1_HandlerExceptionPropagates ==
    \A r \in ReqIds :
        (Returned(r) /\ Enabled /\ HandlerRaised(r)) =>
            /\ result[r].kind = "raise"
            /\ result[r].exc = HandlerError(1)

\* C2: when backend setup fails, setup() returns false and is_ready() is
\* false, and every later request whose handler succeeds gets the handler's
\* response from dispatch, which does not raise, with no span attribute
\* written.
C2_DegradedRequestsSucceed ==
    (mgr_call.op = "setup_tracing" /\ mgr_call.fail_at # "none") =>
        /\ mgr_call.ret = "false"
        /\ ~is_ready(manager)
        /\ \A r \in ReqIds :
            (Returned(r) /\ invocations[r] # <<>> /\ invocations[r][1] = "ok") =>
                /\ result[r].kind = "response"
                /\ result[r].invocation \in 1..Len(invocations[r])
                /\ attributes[r] = EmptyDict

\* the hook and the middleware have both run on request r
Enriched(r) == pc[r] \in {"handler", "fallback", "done"}

\* the header pairs of request r, with a value to hide, that the hook
\* captures with a masked value
RedactedPairs(r) ==
    {i \in 1..Len(scope_headers[r]) :
        /\ should_capture_header(fastapi_config, scope_headers[r][i][1])
        /\ should_redact_header(fastapi_config, scope_headers[r][i][1])
        /\ scope_headers[r][i][2] # ""}

\* C3: for every request header that is on the redact list and is captured,
\* once the hook and the middleware have run the attribute
\* http.request.header.<name> holds "[REDACTED]" and no span attribute holds
\* the header's real value.
C3_RedactedNeverLeaks ==
    \A r \in ReqIds :
        (Enriched(r) /\ recording[r]) =>
            \A i \in RedactedPairs(r) :
                LET name == lower[scope_headers[r][i][1]]
                    value == scope_headers[r][i][2]
                IN  /\ Get(attributes[r], HeaderAttrKey(name)) = REDACTED
                    /\ \A k \in DOMAIN attributes[r] : attributes[r][k] # value

DefaultDeployment ==
    /\ tracing_config = DefaultTracingConfig
    /\ fastapi_config = DefaultFastAPIConfig
    /\ custom_span_attributes = <<>>

\* request r carries exactly one x-correlation-id header, with value v
Carries(r, v) ==
    /\ \E i \in 1..Len(scope_headers[r]) :
        scope_headers[r][i] = <<"x-correlation-id", v>>
    /\ \A i \in 1..Len(scope_headers[r]) :
        scope_headers[r][i][1] = "x-correlation-id" => scope_headers[r][i][2] = v

RequestValues == {pair[2] : pair \in HeaderPairs}

HeaderScanFailed(r) ==
    result[r].kind = "raise" /\ result[r].exc = HeaderScanError

\* the enrichment of dispatch ran to its end on a recording span
EnrichmentCompleted(r) ==
    /\ Enriched(r)
    /\ recording[r]
    /\ ~EnrichmentFailed(r)
    /\ ~HeaderScanFailed(r)

\* the caller of the outbound call passed a header of this name itself
CallerSupplied(call, name) ==
    \E h \in DOMAIN HeadersOrEmpty(call.caller) : lower[h] = lower[name]

C9_CallerHeadersWin ==
    \A r \in ReqIds :
        outbound[r].outcome = "dispatched" =>
            LET supplied == HeadersOrEmpty(outbound[r].caller)
                sent == HeadersOrEmpty(outbound[r].sent)
            IN  /\ \A k \in DOMAIN supplied :
                    k \in DOMAIN sent /\ sent[k] = supplied[k]
                /\ \A k \in (DOMAIN sent) \ (DOMAIN supplied) :
                    \A h \in DOMAIN supplied : lower[h] # lower[k]

\* the span carried an id, the caller passed X-Correlation-ID itself, and the
\* call went out with the caller's headers only
C9_Witness ==
    /\ outbound[1].via = "client"
    /\ outbound[1].outcome = "dispatched"
    /\ outbound[1].read_id = "req-42"
    /\ outbound[1].config = DefaultCorrelationConfig
    /\ outbound[1].caller = AsDict("X-Correlation-ID" :> "mine")
    /\ outbound[1].sent = AsDict("X-Correlation-ID" :> "mine")

\* no correlation id can be read from the current span of request r
NoReadableId(r) ==
    \/ ~recording[r]
    \/ \A i \in 1..Len(AliasKeys) : AliasKeys[i] \notin DOMAIN attributes[r]

\* C10: when no correlation id can be read from the active span, an outbound
\* call is dispatched with exactly the headers the caller supplied.
C10_NoIdDispatchesUnmodified ==
    \A r \in ReqIds :
        (outbound[r].outcome = "dispatched" /\ NoReadableId(r)) =>
            /\ HeadersOrEmpty(outbound[r].sent) = HeadersOrEmpty(outbound[r].caller)
            /\ outbound[r].via = "patched" => outbound[r].sent = outbound[r].caller

\* a span that is not recording still holds an alias attribute, and the call
\* went out with the caller's one header
C10_Witness ==
    /\ ~recording[1]
    /\ "correlation_id" \in DOMAIN attributes[1]
    /\ outbound[1].via = "client"
    /\ outbound[1].outcome = "dispatched"
    /\ outbound[1].caller = AsDict("accept" :> "json")
    /\ outbound[1].sent = AsDict("accept" :> "json")

\* C11: correlation injection never fails an outbound call: for every span
\* state, every headers argument and every client configuration, injection
\* disabled included, CorrelatedClient.request and the patched httpx request
\* dispatch the underlying call and raise nothing of their own.
C11_InjectionNeverFails ==
    \A r \in ReqIds :
        outbound[r].via # "none" =>
            /\ outbound[r].outcome = "dispatched"
            /\ outbound[r].exc = None

(***************************************************************************)
(* Claims about dispatch, checked under Spec.                              *)
(***************************************************************************)
\* the middleware's own logic raised before any handler invocation
EnrichmentRaised(r) == EnrichmentFailed(r) \/ HeaderScanFailed(r)

\* C12: when the middleware's own enrichment logic (header scan or span
\* attribute write) raises before the handler was invoked, dispatch does not
\* raise: it invokes the handler once, uninstrumented, and returns the
\* handler's response, or a status 500 response if that invocation raises.
C12_EnrichmentFailureFallsBack ==
    \A r \in ReqIds :
        (Returned(r) /\ Enabled /\ EnrichmentRaised(r)) =>
            /\ result[r].kind = "response"
            /\ Len(invocations[r]) = 1
            /\ invocations[r][1] = "ok" => result[r] = HandlerResponse(1)
            /\ invocations[r][1] = "raise" => result[r].status = 500

\* the span attributes the package's instrumentation writes for an error
ErrorAttributeKeys == {"error", "error.type", "error.message"}

\* positions of the calls of this kind made on the span of request r
SpanCalls(r, call) ==
    {i \in 1..Len(span_events[r]) : span_events[r][i].call = call}

\* C13: when the handler raises and the active span is recording, the span
\* has received, exactly once, an exception record and an error status
\* carrying the exception, and it holds the error flag, error type and error
\* message attributes.
C13_HandlerFailureRecorded ==
    \A r \in ReqIds :
        (Enabled /\ recording[r] /\ HandlerRaised(r)) =>
            /\ Cardinality(SpanCalls(r, "record_exception")) = 1
            /\ Cardinality(SpanCalls(r, "set_status")) = 1
            /\ \A i \in SpanCalls(r, "record_exception") \cup SpanCalls(r, "set_status") :
                    span_events[r][i].arg = HandlerError(1)
            /\ ErrorAttributeKeys \subseteq DOMAIN attributes[r]

\* the handler returned a response when dispatch invoked it after an
\* enrichment that raised nothing
HandlerSucceeded(r) ==
    /\ ~EnrichmentRaised(r)
    /\ invocations[r] # <<>>
    /\ invocations[r][1] = "ok"

\* a correlation id was resolved for request r
Resolved(r) == correlation_id[r] # Unbound /\ Truthy(correlation_id[r])

\* C14: with the middleware enabled, every response dispatch returns for a
\* request whose handler succeeded carries X-Service-Name and
\* X-Processing-Time, and carries X-Correlation-ID exactly when a correlation
\* id was resolved for the request, with the resolved value.
C14_SuccessResponseStamped ==
    \A r \in ReqIds :
        (Returned(r) /\ Enabled /\ HandlerSucceeded(r)
                /\ result[r].kind = "response") =>
            /\ Get(result[r].headers, "X-Service-Name") = tracing_config.service_name
            /\ "X-Processing-Time" \in DOMAIN result[r].headers
            /\ Resolved(r) =>
                    Get(result[r].headers, "X-Correlation-ID") = correlation_id[r]
            /\ ~Resolved(r) => "X-Correlation-ID" \notin DOMAIN result[r].headers

\* C15: with the middleware disabled by configuration, dispatch invokes the
\* handler exactly once and returns its response or raises its exception
\* unchanged; it writes no span attribute (the span holds what the hook
\* wrote), records no exception on the span and stamps no response header.
C15_DisabledPassesThrough ==
    \A r \in ReqIds :
        (~Enabled /\ pc[r] \in {"handler", "fallback", "done"}) =>
            /\ pc[r] # "fallback"
            /\ attributes[r] = request_hook(fastapi_config, recording[r],
                                            scope_headers[r], EmptyDict)
            /\ span_events[r] = <<>>
            /\ Returned(r) =>
                /\ Len(invocations[r]) = 1
                /\ invocations[r][1] = "ok" => result[r] = HandlerResponse(1)
                /\ invocations[r][1] = "raise" =>
                        /\ result[r].kind = "raise"
                        /\ result[r].exc = HandlerError(1)

\* with the middleware disabled, a request with a correlation header on a
\* recording span had its handler raise, and dispatch raised the same
C15_Witness ==
    /\ ~Enabled
    /\ recording[1]
    /\ scope_headers[1] = <<<<"x-correlation-id", "req-42">>>>
    /\ Returned(1)
    /\ invocations[1] = <<"raise">>
    /\ result[1].exc = HandlerError(1)

(***************************************************************************)
(* Claims about the TracingManager, checked under MgrSpec.                 *)
(***************************************************************************)
\* C16: shutdown() never raises, on its first call and on a repeated one,
\* whether the manager was never set up, was set up successfully or failed
\* during setup at any step.
C16_ShutdownTwiceNeverRaises ==
    mgr_call.op = "shutdown" => mgr_call.ret = "none"

\* a setup() that failed after building the provider, then two shutdown()
\* calls, each of which shut the provider down
C16_Witness ==
    /\ mgr_call.op = "shutdown"
    /\ shutdown_calls = 2
    /\ ~manager.is_setup
    /\ manager.tracer_provider # 0
    /\ manager.span_processor = 0
    /\ Len(released) = 2

\* C17: get_tracer() fails with the "not initialized" error in every state
\* in which the manager is not Ready, that is before any setup() call and
\* after a failed setup(), and returns the tracer only when the last setup()
\* succeeded.
C17_GetTracerOnlyWhenReady ==
    mgr_call.op = "get_tracer" =>
        (mgr_call.ret = "RuntimeError" <=> mgr_history.last_setup # "true")

\* C18: shutdown() takes a Ready manager to a terminal state: once it has
\* been called, is_ready() returns false and get_tracer() fails, until a
\* later setup().
C18_ShutdownIsTerminal ==
    (mgr_history.shut_down /\ mgr_history.last_setup = "true") =>
        /\ ~is_ready(manager)
        /\ mgr_call.op = "is_ready" => mgr_call.ret = "false"
        /\ mgr_call.op = "get_tracer" => mgr_call.ret = "RuntimeError"

\* the four attributes of a span that hold a correlation id
CorrelationAttributeKeys ==
    SeqRange(AliasKeys) \cup {HeaderAttrKey("x-correlation-id")}

\* C20: the four correlation attributes are set together: once the inbound
\* enrichment of a request has finished, also when a failure cut it short,
\* the span holds correlation_id, correlation.id, x-correlation-id and
\* http.request.header.x-correlation-id all with one value, or none of them.
\* (Stated for requests whose headers all carry a value.)
C20_AliasesSetTogether ==
    \A r \in ReqIds :
        (Enriched(r) /\ recording[r]
                /\ \A i \in 1..Len(scope_headers[r]) : scope_headers[r][i][2] # "") =>
            \/ CorrelationAttributeKeys \cap DOMAIN attributes[r] = {}
            \/ /\ CorrelationAttributeKeys \subseteq DOMAIN attributes[r]
               /\ \A k \in CorrelationAttributeKeys :
                    attributes[r][k] = attributes[r]["correlation_id"]

(***************************************************************************)
(* Claims about concurrent requests, checked under ConcSpec.               *)
(***************************************************************************)
\* the id request r resolved and the header values it arrived with
OwnValues(r) ==
    {correlation_id[r]} \cup
    {scope_headers[r][i][2] : i \in 1..Len(scope_headers[r])}

\* C19: in every interleaving of two concurrently processed requests that
\* resolved different correlation ids, the correlation attributes of each
\* request's span, its X-Correlation-ID response header and the propagation
\* headers of its outbound calls carry that request's own id (or own header
\* value), never the other request's.
C19_RequestsIsolated ==
    \A r \in ReqIds : \A o \in ReqIds \ {r} :
        (Resolved(r) /\ Resolved(o) /\ correlation_id[r] # correlation_id[o]) =>
            /\ \A k \in CorrelationAttributeKeys \cap DOMAIN attributes[r] :
                    attributes[r][k] \in OwnValues(r)
            /\ "X-Correlation-ID" \in DOMAIN result[r].headers =>
                    result[r].headers["X-Correlation-ID"] = correlation_id[r]
            /\ outbound[r].outcome = "dispatched" =>
                    \A k \in DOMAIN outbound[r].sent.map :
                        \/ k \in DOMAIN HeadersOrEmpty(outbound[r].caller)
                        \/ outbound[r].sent.map[k] \in OwnValues(r)

\* both handlers are running at once, and each has made an outbound call
\* that carries its own request's id
C19_Witness ==
    /\ pc[1] = "handler" /\ pc[2] = "handler"
    /\ correlation_id[1] = "req-42" /\ correlation_id[2] = "req-7"
    /\ attributes[1]["correlation_id"] = "req-42"
    /\ attributes[2]["correlation_id"] = "req-7"
    /\ outbound[1].sent = AsDict("x-correlation-id" :> "req-42")
    /\ outbound[2].sent = AsDict("x-correlation-id" :> "req-7")

(***************************************************************************)
(* Claims about the span attributes of a request, checked under Spec.      *)
(***************************************************************************)
\* every header of request r carries a value
AllValued(r) ==
    \A i \in 1..Len(scope_headers[r]) : scope_headers[r][i][2] # ""

\* C21: the span attribute set is append-only during one request: a step of
\* the hook or the middleware never writes a key the span already holds with
\* a different value, so correlation_id never changes once set.  (Stated for
\* requests whose headers all carry a value.)
C21_AttributesAppendOnly ==
    [][\A r \in ReqIds :
        AllValued(r) =>
            \A k \in DOMAIN attributes[r] \cap DOMAIN attributes'[r] :
                attributes'[r][k] = attributes[r][k]]_vars

\* the hook ran on a recording span, the enabled middleware enriched it
\* without a failure, and the handler returned
ProcessedByBoth(r) ==
    /\ Enabled
    /\ Returned(r)
    /\ recording[r]
    /\ HandlerSucceeded(r)
    /\ result[r].kind = "response"

\* C22: the hook and the middleware agree on the correlation id: for a
\* request processed by both with a succeeding handler, the span carries a
\* correlation_id attribute if and only if the response carries
\* X-Correlation-ID, and then with the same value.  (Stated for requests
\* whose headers all carry a value.)
C22_HookAndMiddlewareAgree ==
    \A r \in ReqIds :
        (ProcessedByBoth(r) /\ AllValued(r)) =>
            /\ "correlation_id" \in DOMAIN attributes[r]
                    <=> "X-Correlation-ID" \in DOMAIN result[r].headers
            /\ "correlation_id" \in DOMAIN attributes[r] =>
                    attributes[r]["correlation_id"] = result[r].headers["X-Correlation-ID"]

\* C23: the two outbound paths agree: for the same active-span attributes,
\* the same caller headers and the same service CorrelationConfig, the
\* patched httpx request dispatches the headers CorrelatedClient.request
\* dispatches.  (Stated for calls that pass a headers mapping through a
\* client with httpx instrumentation enabled.)
C23_OutboundPathsAgree ==
    \A r \in ReqIds :
        (/\ outbound[r].via = "client"
         /\ outbound[r].enable_httpx
         /\ outbound[r].caller.kind = "dict") =>
            LET patched == PatchedRequest(outbound[r].caller,
                                          recording[get_current_span(r)],
                                          attributes[get_current_span(r)])
            IN  /\ patched.outcome = outbound[r].outcome
                /\ patched.sent = outbound[r].sent

\* the hook of request r has just run on a recording span
Hooked(r) == pc[r] = "hooked" /\ recording[r]

\* the value request r carries for header h (the last one if h is repeated)
HeaderValue(r, h) ==
    LET pairs == scope_headers[r]
        last == CHOOSE i \in 1..Len(pairs) :
                    /\ lower[pairs[i][1]] = lower[h]
                    /\ \A j \in (i + 1)..Len(pairs) : lower[pairs[j][1]] # lower[h]
    IN  pairs[last][2]

HeaderNames(r) == {scope_headers[r][i][1] : i \in 1..Len(scope_headers[r])}

\* C24: after the request hook ran on a recording span, for every request
\* header h the attribute http.request.header.<lowercased h> is written if
\* and only if shouldCapture(h), with the raw header value when
\* shouldRedact(h) is false and "[REDACTED]" when it is true; no other
\* http.request.header attribute is written.
C24_HookCapturesByPolicy ==
    \A r \in ReqIds :
        Hooked(r) =>
            /\ \A h \in HeaderNames(r) :
                LET key == "http.request.header." \o lower[h]
                IN  /\ key \in DOMAIN attributes[r]
                            <=> should_capture_header(fastapi_config, h)
                    /\ key \in DOMAIN attributes[r] =>
                            attributes[r][key] =
                                IF should_redact_header(fastapi_config, h)
                                THEN REDACTED ELSE HeaderValue(r, h)
            /\ DOMAIN attributes[r] \subseteq
                    {"correlation_id"} \cup
                    {"http.request.header." \o lower[h] : h \in HeaderNames(r)}

\* a hooked request with one header captured raw and one captured redacted
C24_Witness ==
    \E r \in ReqIds :
        /\ Hooked(r)
        /\ \E h \in HeaderNames(r) :
            /\ should_capture_header(fastapi_config, h)
            /\ should_redact_header(fastapi_config, h)
            /\ attributes[r]["http.request.header." \o lower[h]] = REDACTED
        /\ \E h \in HeaderNames(r) :
            /\ should_capture_header(fastapi_config, h)
            /\ ~should_redact_header(fastapi_config, h)
            /\ HeaderValue(r, h) # ""
            /\ attributes[r]["http.request.header." \o lower[h]] = HeaderValue(r, h)

(***************************************************************************)
(* Header policies                                                         *)
(***************************************************************************)
\* str.upper() on one character and on a string of the model
UpperChar(c) ==
    IF \E u \in DOMAIN UpperToLower : UpperToLower[u] = c
    THEN CHOOSE u \in DOMAIN UpperToLower : UpperToLower[u] = c
    ELSE c

upper(s) == StringOf([i \in 1..Len(Chars[s]) |-> UpperChar(Chars[s][i])])

UpperAll(patterns) == [i \in 1..Len(patterns) |-> upper(patterns[i])]

MatchCalled == probe.op = "match"

\* C25: pattern matching is case-insensitive in the header name and in the
\* patterns: matches(h, patterns) equals matches(upper(h), patterns) and
\* equals the result with every pattern upper-cased.
C25_MatchCaseInsensitive ==
    MatchCalled =>
        /\ probe.ret = match_header_pattern(upper(probe.name), probe.patterns)
        /\ probe.ret = match_header_pattern(probe.name, UpperAll(probe.patterns))

\* a lower-case name matched by a lower-case pattern
C25_Witness ==
    /\ MatchCalled
    /\ probe.ret
    /\ upper(probe.name) # probe.name
    /\ \E i \in 1..Len(probe.patterns) :
        /\ upper(probe.patterns[i]) # probe.patterns[i]
        /\ fnmatch(probe.name, probe.patterns[i])

\* where in the name each element of pattern p starts (counted from 0) when
\* the star at position j stands for lens[j] characters
RECURSIVE StartOf(_, _, _)
StartOf(p, lens, j) ==
    IF j = 1 THEN 0
    ELSE StartOf(p, lens, j - 1) + (IF p[j - 1] = "*" THEN lens[j - 1] ELSE 1)

\* pattern p covers the whole of s: every * stands for some sequence of
\* characters, a character of any_one for any single character, and every
\* other character for itself, compared without regard to case
WholeMatch(s, p, any_one) ==
    \E lens \in [{j \in 1..Len(p) : p[j] = "*"} -> 0..Len(s)] :
        /\ StartOf(p, lens, Len(p) + 1) = Len(s)
        /\ \A j \in 1..Len(p) :
            p[j] # "*" =>
                \/ p[j] \in any_one
                \/ LowerChar(p[j]) = LowerChar(s[StartOf(p, lens, j) + 1])

\* C26 as stated: matches(h, patterns) is true exactly when at least one
\* pattern matches the whole of h, reading each * as any sequence of
\* characters and every other pattern character as a literal compared
\* case-insensitively; false for an empty list, never an exception.
C26_StarOnlyGlob ==
    MatchCalled =>
        /\ probe.ret \in BOOLEAN
        /\ probe.ret = \E i \in 1..Len(probe.patterns) :
                            WholeMatch(Chars[probe.name], Chars[probe.patterns[i]], {})

\* C26: matches(h, patterns) is true exactly when at least one pattern
\* matches the whole of h, reading each * as any sequence of characters,
\* each ? as any single character and every other pattern character as a
\* literal compared case-insensitively; false for an empty list, never an
\* exception.
C26_GlobMatch ==
    MatchCalled =>
        /\ probe.ret \in BOOLEAN
        /\ probe.patterns = <<>> => probe.ret = FALSE
        /\ probe.ret = \E i \in 1..Len(probe.patterns) :
                            WholeMatch(Chars[probe.name], Chars[probe.patterns[i]], {"?"})

\* a name matched by its second pattern only, through a star
C26_Witness ==
    /\ MatchCalled
    /\ probe.ret
    /\ Len(probe.patterns) = 2
    /\ ~fnmatch(lower[probe.name], lower[probe.patterns[1]])
    /\ "*" \in SeqRange(Chars[probe.patterns[2]])

CaptureCalled == probe.op = "capture"

\* the explicit allow-list of the policy that was called
AllowList(policy, class) ==
    IF class = "FastAPIConfig" THEN policy.capture_request_headers
    ELSE policy.capture_headers

\* C27: for both the inbound (FastAPIConfig) and the outbound
\* (HTTPClientConfig) policy, shouldCapture(h) is true if and only if h
\* equals an allow-list entry compared case-insensitively or h matches at
\* least one configured wildcard pattern.
C27_CaptureListOrPattern ==
    CaptureCalled =>
        (probe.ret <=>
            \/ \E e \in SeqRange(AllowList(probe.policy, probe.class)) :
                    LowerSeq(Chars[e]) = LowerSeq(Chars[probe.name])
            \/ \E i \in 1..Len(probe.policy.header_patterns) :
                    WholeMatch(Chars[probe.name],
                               Chars[probe.policy.header_patterns[i]], {"?"}))

\* an outbound policy captures a header through a pattern alone
C27_Witness ==
    /\ CaptureCalled
    /\ probe.class = "HTTPClientConfig"
    /\ probe.ret
    /\ lower[probe.name] \notin {lower[e] : e \in SeqRange(probe.policy.capture_headers)}

\* an inbound policy captures a header through a pattern alone
C27_WitnessInbound ==
    /\ CaptureCalled
    /\ probe.class = "FastAPIConfig"
    /\ probe.ret
    /\ lower[probe.name] \notin
            {lower[e] : e \in SeqRange(probe.policy.capture_request_headers)}

RedactCalled == probe.op = "redact"

\* C28: shouldRedact is independent of capture: two policies with the same
\* redact list and different allow-lists and wildcard patterns give the
\* same shouldRedact(h) for every header h.
C28_RedactIndependentOfCapture ==
    RedactCalled =>
        /\ \A other \in FastAPIPolicies :
                other.redact_headers = probe.policy.redact_headers =>
                    should_redact_header(other, probe.name) = probe.ret
        /\ \A other \in HTTPClientPolicies :
                other.redact_headers = probe.policy.redact_headers =>
                    HTTPClientConfig_should_redact_header(other, probe.name) = probe.ret

\* a header that one policy captures and redacts, and that a policy with
\* the same redact list does not capture
C28_Witness ==
    /\ RedactCalled
    /\ probe.class = "FastAPIConfig"
    /\ probe.ret
    /\ should_capture_header(probe.policy, probe.name)
    /\ \E other \in FastAPIPolicies :
        /\ other.redact_headers = probe.policy.redact_headers
        /\ ~should_capture_header(other, probe.name)

\* C29: a redact-list entry containing a wildcard redacts every header
\* whose name matches it: with "x-secret-*" in redact_headers,
\* shouldRedact(h) is true for every header h whose name starts with
\* "x-secret-".
C29_WildcardRedacts ==
    (/\ RedactCalled
     /\ "x-secret-*" \in SeqRange(probe.policy.redact_headers)
     /\ fnmatch(lower[probe.name], "x-secret-*")) => probe.ret

\* the attribute writes the enrichment of request r makes when none fails
IntendedWrites(r) ==
    EnrichmentWrites(tracing_config, custom_span_attributes,
                     RequestHeadersDict(scope_headers[r]), client[r],
                     correlation_id[r])

\* the intended writes that the span of request r does not show
MissingWrites(r) ==
    {i \in 1..Len(IntendedWrites(r)) :
        Get(attributes[r], IntendedWrites(r)[i][1]) # IntendedWrites(r)[i][2]}

\* C30: an enrichment failure costs only the attribute that failed: when
\* one span attribute write raises during inbound enrichment, every other
\* attribute that enrichment would have written for that request is still
\* written.
C30_FailureCostsOneAttribute ==
    \A r \in ReqIds :
        EnrichmentFailed(r) =>
            Cardinality(MissingWrites(r)) <= 1

\* C31: inbound enrichment never writes a placeholder: client.ip is absent
\* when the request has no client address, and service.port is absent when
\* no port is configured (TracingConfig has no port field, so none ever is).
C31_NoPlaceholderAttributes ==
    \A r \in ReqIds :
        (Enabled /\ Enriched(r)) =>
            /\ client[r] = None => "client.ip" \notin DOMAIN attributes[r]
            /\ "service.port" \notin DOMAIN attributes[r]

\* the two attribute keys that mirror an edge header
EdgeKeys ==
    "x-edge-location" :> <<"cloudfront.edge_location", "x-edge-location">> @@
    "x-request-id" :> <<"cloudfront.request_id", "x-request-id">> @@
    "x-amz-cf-id" :> <<"cloudfront.distribution_id", "x-amz-cf-id">>

\* C32: for each of the edge headers x-edge-location, x-request-id and
\* x-amz-cf-id, after inbound enrichment on a recording span both key forms
\* hold the header's value if the header is present in the request, and
\* neither form is written if it is absent.  (A header whose value is empty
\* or the marker not-found counts as absent.)
C32_EdgeHeadersMirrored ==
    \A r \in ReqIds :
        (Enabled /\ EnrichmentCompleted(r)) =>
            \A h \in DOMAIN EdgeKeys :
                LET headers_dict == RequestHeadersDict(scope_headers[r])
                IN  IF h \in DOMAIN headers_dict /\ Present(headers_dict[h])
                    THEN \A i \in 1..2 :
                            Get(attributes[r], EdgeKeys[h][i]) = headers_dict[h]
                    ELSE \A i \in 1..2 :
                            EdgeKeys[h][i] \notin DOMAIN attributes[r]

\* the sampler setting a configured rate selects
ExpectedSampler(rate) ==
    IF rate = None THEN ALWAYS_ON ELSE "traceidratio=" \o rate

\* C33: default always-on sampling is selected exactly when sampling_rate is
\* omitted; every configured rate, including 0.0, selects ratio-based
\* sampling with that rate, both in the sampler setup() installs and in the
\* sampler setting get_env_vars reports.
C33_SamplerFollowsRate ==
    /\ (mgr_call.op \in {"setup", "setup_tracing"}
            /\ Completed("sampler", mgr_call.fail_at)) =>
        ProviderSampler(tracing_config) = ExpectedSampler(tracing_config.sampling_rate)
    /\ mgr_call.op = "get_env_vars" =>
        mgr_call.ret.OTEL_TRACES_SAMPLER = ExpectedSampler(tracing_config.sampling_rate)

\* C34: for every request, dispatch invokes the downstream handler exactly
\* once, whatever the state of the current span and whether the handler
\* returns or raises; when enrichment failed before the handler was invoked,
\* the fallback invocation is the only one.
C34_HandlerInvokedOnce ==
    \A r \in ReqIds :
        (Returned(r) /\ ~HeaderScanFailed(r)) => Len(invocations[r]) = 1

\* every service of the chain propagates, and the header list of every
\* service holds the first header name of the service before it
ChainAligned ==
    \A i \in 1..Len(chain.configs) :
        /\ chain.configs[i].propagation
        /\ i > 1 =>
            /\ chain.configs[i - 1].headers # <<>>
            /\ chain.configs[i - 1].headers[1] \in SeqRange(chain.configs[i].headers)

C36_ReleasedAtMostOnce ==
    \A i, j \in 1..Len(released) : i # j => released[i] # released[j]

\* C37: for every Celery task run, the span started by the task_prerun
\* handler is ended exactly once, whether the task succeeds or fails, and no
\* attribute is written to it after it has ended.
C37_TaskSpanEndedOnce ==
    /\ task.span.end_calls <= 1
    /\ task.span.late_writes = <<>>
    /\ task.pc = "done" => task.span.end_calls = 1

\* the wrapped call has ended and its span holds the record of error e
ErrorRecorded(e) ==
    /\ ErrorAttributeKeys \subseteq DOMAIN traced.span.attributes
    /\ traced.span.attributes["error"] = TRUE
    /\ traced.span.attributes["error.type"] = e
    /\ traced.span.attributes["error.message"] = "message of " \o e
    /\ \E i \in 1..Len(traced.span.events) :
            traced.span.events[i] = <<"exception", e>>

\* C38 as stated: a function wrapped by trace_function returns the wrapped
\* function's result unchanged, and whenever the wrapped function raises,
\* the same exception propagates after the span received error, error.type,
\* error.message and an exception record; the span is ended in both cases.
C38_EveryRaiseRecorded ==
    traced.pc = "done" =>
        /\ traced.outcome = traced.func_outcome
        /\ traced.outcome.kind = "raise" => ErrorRecorded(traced.outcome.value)
        /\ traced.span.end_calls = 1

\* C38: a function wrapped by trace_function, synchronous or asynchronous,
\* returns the wrapped function's result unchanged, and when the wrapped
\* function raises an exception derived from Exception, the same exception
\* propagates after the span received error, error.type, error.message and
\* an exception record; the span is ended exactly once in both cases, also
\* for an exception outside Exception, and nothing is written after.
C38_TracedFunction ==
    traced.pc = "done" =>
        /\ traced.outcome = traced.func_outcome
        /\ (traced.outcome.kind = "raise" /\ IsException(traced.outcome.value)) =>
                ErrorRecorded(traced.outcome.value)
        /\ traced.span.end_calls = 1
        /\ traced.span.late_writes = <<>>

\* an asynchronous wrapped function raised ValueError
C38_Witness ==
    /\ traced.pc = "done"
    /\ traced.wrapper = "async"
    /\ traced.outcome = [kind |-> "raise", value |-> "ValueError"]
    /\ ErrorRecorded("ValueError")

====
